---- MODULE Spec2Model ----
(***************************************************************************)
(* Card / Wikipedia entity resolution of miganko-dev/VINF.                 *)
(*                                                                         *)
(* Strings are sequences of one-character strings, so that lower(),        *)
(* strip(), startswith(), the regular expressions and the sort key are     *)
(* computed character by character as the Python code computes them.       *)
(* Python's None is the sentinel None below, which is not a string of      *)
(* characters.                                                             *)
(***************************************************************************)
EXTENDS Integers, Sequences, FiniteSets, TLC

VARIABLES
    \* ---- NameNormalizer (join_cards_wiki.normalize / extract_base_pokemon)
    nm_name,      \* the name given to the functions
    nm_norm,      \* normalize(nm_name), None until computed
    nm_renorm,    \* normalize(normalize(nm_name)), None until computed
    nm_base,      \* extract_base_pokemon(nm_name), None until computed
    \* ---- PokeCard (parser/utils/card_manager.py)
    card_built,   \* TRUE once PokeCard.__init__ has run
    full_name,    \* self.full_name
    prefix,       \* self.prefix
    pokemon_name, \* self.pokemon_name
    rarity,       \* self.rarity
    \* ---- run_join / join_pokemon_wiki (wiki_parser/core/join_cards_wiki.py)
    pc,               \* position in run_join
    run,              \* 1 in the first run of the program, 2 in the second
    pokemon_cards,    \* load_cards(): the card groups in dict order
    wiki_titles,      \* load_wiki_titles()
    wiki_info,        \* load_wiki_info(): title -> page info
    wiki_text,        \* load_wiki_pages_with_text(): title -> text
    text_index,       \* pokemon name -> titles that mention it, empty for None
    wiki_exact,       \* lower-cased title -> title
    wiki_normalized,  \* normalized title -> title
    title_word_index, \* word -> titles
    results,          \* the list join_pokemon_wiki builds
    first_results,    \* the results of the first run, kept for comparison
    \* ---- WikiInfoExtractor.extract_all_info (wiki_info_extractor.py)
    page_title,   \* the parameter title
    page_text,    \* the parameter text, as a sequence of markup fragments
    all_info,     \* the dict returned, empty until the call
    extracted,    \* TRUE once extract_all_info has run
    \* ---- run_join / save_results (wiki_parser/core/join_cards_wiki.py)
    stats,        \* the JoinStats of the run, empty until computed
    written,      \* the output files written in the run
    joined_file,  \* content of the joined-output file
    matched_file, \* content of the matched-only file
    stats_file,   \* content of the statistics file, empty until written
    \* ---- load_cards / load_wiki_pages_with_text (wiki_parser/core/join_cards_wiki.py)
    cards_dir,    \* the card files of CARDS_DIR in glob order
    files_read,   \* number of card files the loop has gone through
    loaded_cards, \* pokemon_cards as load_cards builds it
    text_file,    \* the entries of wiki_pages_with_text.json
    loaded_text,  \* the dict load_wiki_pages_with_text returned
    load_pc,      \* position in the loading part of run_join
    \* ---- cmd_all (wiki_parser/main.py)
    args,      \* the parsed options of the 'all' command
    started,   \* the names of the steps started, in order
    raised,    \* the names of the steps that raised an Exception
    all_pc,    \* position in cmd_all
    exit_code, \* what main returns for the command, -1 until it does
    \* ---- ExtractManager.parse_card (parser/utils/extract_manager.py)
    html_content,      \* the page, as what each card regex captures in it
    parse_card_result, \* how parse_card ended and the card it built
    \* ---- join_pokemon_wiki.sort_key (wiki_parser/core/join_cards_wiki.py)
    sk_pokemon, \* the entity name the candidates are ranked for
    sk_title,   \* the candidate title
    sk_tier,    \* what sort_key returned, -1 until it is called
    \* ---- WikiInfoExtractor._clean_wiki_markup (wiki_parser/core/wiki_info_extractor.py)
    clean_input,  \* the text given to _clean_wiki_markup
    clean_text,   \* the local text as the function rewrites it
    clean_passes, \* passes of the template loop that ran re.sub
    clean_pc,     \* position in _clean_wiki_markup
    \* ---- WikiInfoExtractor.extract_description on a whole page text (wiki_parser/core/wiki_info_extractor.py)
    desc_text,   \* the text given to extract_description
    paragraphs,  \* the paragraphs the loop has not looked at yet
    desc_result, \* the value extract_description returns
    desc_pc,     \* position in extract_description
    \* ---- Crawler.run and LinkExtractor (crawler/core/crawler.py, crawler/utils/link_manager.py)
    links,          \* self.links: the urls in insertion order, each with its visited flag
    links_to_crawl, \* the batch get_url returned
    robots,         \* the disallow set of self.link_extractor
    crawl_results,  \* the urls of the batch for which scrape_page returned a result
    batch_links,    \* the local set links of run: what extract_links gave for the batch
    crawl_pc        \* position in Crawler.run

nmVars == <<nm_name, nm_norm, nm_renorm, nm_base>>

cardVars == <<card_built, full_name, prefix, pokemon_name, rarity>>

inputVars == <<pokemon_cards, wiki_titles, wiki_info, wiki_text>>

indexVars == <<text_index, wiki_exact, wiki_normalized, title_word_index>>

joinVars == <<pc, run, inputVars, indexVars, results, first_results>>

extractVars == <<page_title, page_text, all_info, extracted>>

outputVars == <<stats, written, joined_file, matched_file, stats_file>>

loadVars == <<cards_dir, files_read, loaded_cards, text_file, loaded_text, load_pc>>

allVars == <<args, started, raised, all_pc, exit_code>>

parseVars == <<html_content, parse_card_result>>

sortKeyVars == <<sk_pokemon, sk_title, sk_tier>>

cleanVars == <<clean_input, clean_text, clean_passes, clean_pc>>

descVars == <<desc_text, paragraphs, desc_result, desc_pc>>

crawlVars == <<links, links_to_crawl, robots, crawl_results, batch_links, crawl_pc>>

vars == <<nmVars, cardVars, joinVars, extractVars, outputVars, loadVars, allVars, parseVars, sortKeyVars, cleanVars, descVars, crawlVars>>

-----------------------------------------------------------------------------
(* Bounds of the model *)

\* longest arbitrary string given to normalize / extract_base_pokemon
MaxStrLen == 3

-----------------------------------------------------------------------------
(* Characters and Python str methods *)

None == <<"None">>

EmptyStr == << >>

UpperChars == <<"A", "B", "C", "D", "E", "F", "G", "H", "I", "J", "K", "L", "M", "N", "O", "P", "Q", "R", "S", "T", "U", "V", "W", "X", "Y", "Z", "É">>

LowerChars == <<"a", "b", "c", "d", "e", "f", "g", "h", "i", "j", "k", "l", "m", "n", "o", "p", "q", "r", "s", "t", "u", "v", "w", "x", "y", "z", "é">>

DigitChars == {"0", "1", "2", "3", "4", "5", "6", "7", "8", "9"}

WhitespaceChars == {" ", "\t", "\n"}

AsciiLowerChars == {LowerChars[i] : i \in 1..26}

UpperSet == {UpperChars[i] : i \in 1..Len(UpperChars)}

LowerSet == {LowerChars[i] : i \in 1..Len(LowerChars)}

\* upper-case character -> its lower case
ToLower == [c \in UpperSet |-> LowerChars[CHOOSE i \in 1..Len(UpperChars) : UpperChars[i] = c]]

\* lower-case character -> its upper case
ToUpper == [c \in LowerSet |-> UpperChars[CHOOSE i \in 1..Len(LowerChars) : LowerChars[i] = c]]

IsUpperChar(c) == c \in UpperSet

IsLowerChar(c) == c \in LowerSet

IsCasedChar(c) == IsUpperChar(c) \/ IsLowerChar(c)

LowerChar(c) == IF IsUpperChar(c) THEN ToLower[c] ELSE c

UpperChar(c) == IF IsLowerChar(c) THEN ToUpper[c] ELSE c

\* str.lower()
Lower(s) == [i \in 1..Len(s) |-> LowerChar(s[i])]

\* s[a:b] with 0-based Python slice bounds already clipped to 0..len(s)
Slice(s, a, b) == IF b <= a THEN EmptyStr ELSE SubSeq(s, a + 1, b)

\* str.startswith(p)
StartsWith(s, p) == Len(p) <= Len(s) /\ SubSeq(s, 1, Len(p)) = p

\* str.endswith(p)
EndsWith(s, p) == Len(p) <= Len(s) /\ SubSeq(s, Len(s) - Len(p) + 1, Len(s)) = p

\* number of leading whitespace characters of s
LeadingSpaces(s) ==
    IF \A i \in 1..Len(s) : s[i] \in WhitespaceChars
    THEN Len(s)
    ELSE (CHOOSE i \in 1..Len(s) :
            /\ s[i] \notin WhitespaceChars
            /\ \A j \in 1..(i - 1) : s[j] \in WhitespaceChars) - 1

\* number of trailing whitespace characters of s
TrailingSpaces(s) ==
    IF \A i \in 1..Len(s) : s[i] \in WhitespaceChars
    THEN Len(s)
    ELSE Len(s) - (CHOOSE i \in 1..Len(s) :
            /\ s[i] \notin WhitespaceChars
            /\ \A j \in (i + 1)..Len(s) : s[j] \in WhitespaceChars)

\* str.strip()
Strip(s) ==
    IF LeadingSpaces(s) = Len(s) THEN EmptyStr
    ELSE SubSeq(s, LeadingSpaces(s) + 1, Len(s) - TrailingSpaces(s))

\* str.title(): a cased character is upper-cased when the character before it
\* is not cased, lower-cased otherwise
Title(s) ==
    [i \in 1..Len(s) |->
        IF i > 1 /\ IsCasedChar(s[i - 1]) THEN LowerChar(s[i]) ELSE UpperChar(s[i])]

\* the set of all strings over alphabet of length 0..n
StringsUpTo(alphabet, n) == UNION {[1..k -> alphabet] : k \in 0..n}

-----------------------------------------------------------------------------
(* NameNormalizer: join_cards_wiki.py *)

PREFIXES == <<
    <<"d", "e", "t", "e", "c", "t", "i", "v", "e">>,
    <<"d", "a", "r", "k">>,
    <<"l", "i", "g", "h", "t">>,
    <<"s", "h", "i", "n", "y">>,
    <<"s", "h", "a", "d", "o", "w">>,
    <<"t", "e", "a", "m">>,
    <<"a", "l", "o", "l", "a", "n">>,
    <<"g", "a", "l", "a", "r", "i", "a", "n">>,
    <<"h", "i", "s", "u", "i", "a", "n">>,
    <<"p", "a", "l", "d", "e", "a", "n">>,
    <<"p", "r", "i", "m", "a", "l">>,
    <<"m", "e", "g", "a">>,
    <<"g", "i", "g", "a", "n", "t", "a", "m", "a", "x">>,
    <<"o", "r", "i", "g", "i", "n", " ", "f", "o", "r", "m", "e">>,
    <<"r", "a", "d", "i", "a", "n", "t">>
>>

SUFFIXES == <<
    <<"v">>,
    <<"v", "m", "a", "x">>,
    <<"v", "s", "t", "a", "r">>,
    <<"e", "x">>,
    <<"g", "x">>,
    <<"l", "v", ".", "x">>,
    <<"l", "v", "x">>,
    <<"l", "v", " ", "x">>,
    <<"p", "r", "i", "m", "e">>,
    <<"l", "e", "g", "e", "n", "d">>,
    <<"b", "r", "e", "a", "k">>,
    <<"t", "a", "g", " ", "t", "e", "a", "m">>,
    <<"s", "t", "a", "r">>,
    <<"g">>,
    <<"g", "l">>,
    <<"f", "b">>,
    <<"e", "4">>,
    <<"c">>,
    <<"4">>,
    <<"s", "p">>,
    <<"d", "e", "l", "t", "a", " ", "s", "p", "e", "c", "i", "e", "s">>,
    <<"c", "r", "y", "s", "t", "a", "l", " ", "t", "y", "p", "e">>
>>

\* NORMALIZE_PATTERN = [^a-z0-9]: the characters the substitution keeps
IsNormalizeKept(c) == c \in AsciiLowerChars \/ c \in DigitChars

\* WORD_PATTERN = [a-z]+
IsWordChar(c) == c \in AsciiLowerChars

\* re.sub with count=1: only the first rejected character is removed
RemoveFirstRejected(s) ==
    IF \A i \in 1..Len(s) : IsNormalizeKept(s[i]) THEN s
    ELSE LET i == CHOOSE k \in 1..Len(s) :
                    ~IsNormalizeKept(s[k]) /\ \A j \in 1..(k - 1) : IsNormalizeKept(s[j])
         IN  SubSeq(s, 1, i - 1) \o SubSeq(s, i + 1, Len(s))

normalize_count1(name) ==
    IF name = EmptyStr THEN EmptyStr
    ELSE RemoveFirstRejected(Lower(name))

normalize(name) ==
    IF name = EmptyStr THEN EmptyStr
    ELSE SelectSeq(Lower(name), IsNormalizeKept)

\* for prefix in PREFIXES: ... break -- index of the first prefix that is
\* followed by a blank at the start of name_lower, 0 when there is none
FirstPrefix(name_lower) ==
    LET Hit(i) == StartsWith(name_lower, PREFIXES[i] \o <<" ">>)
    IN  IF \E i \in 1..Len(PREFIXES) : Hit(i)
        THEN CHOOSE i \in 1..Len(PREFIXES) : Hit(i) /\ \A j \in 1..(i - 1) : ~Hit(j)
        ELSE 0

\* for suffix in SUFFIXES: ... break -- index of the first suffix that is
\* preceded by a blank at the end of name_lower, 0 when there is none
FirstSuffix(name_lower) ==
    LET Hit(i) == EndsWith(name_lower, <<" ">> \o SUFFIXES[i])
    IN  IF \E i \in 1..Len(SUFFIXES) : Hit(i)
        THEN CHOOSE i \in 1..Len(SUFFIXES) : Hit(i) /\ \A j \in 1..(i - 1) : ~Hit(j)
        ELSE 0

StripPrefix(name_lower) ==
    LET i == FirstPrefix(name_lower)
    IN  IF i = 0 THEN name_lower
        ELSE Strip(Slice(name_lower, Len(PREFIXES[i]), Len(name_lower)))

StripSuffix(name_lower) ==
    LET i == FirstSuffix(name_lower)
    IN  IF i = 0 THEN name_lower
        ELSE Strip(Slice(name_lower, 0, Len(name_lower) - Len(SUFFIXES[i])))

\* the result is returned without .title()
extract_base_pokemon_untitled(name) ==
    IF name = EmptyStr THEN EmptyStr
    ELSE LET name_lower == StripSuffix(StripPrefix(Strip(Lower(name))))
         IN  IF name_lower # EmptyStr THEN name_lower ELSE name

extract_base_pokemon(name) ==
    IF name = EmptyStr THEN EmptyStr
    ELSE LET name_lower == StripSuffix(StripPrefix(Strip(Lower(name))))
         IN  IF name_lower # EmptyStr THEN Title(name_lower) ELSE name

-----------------------------------------------------------------------------
(* PokeCard: parser/utils/card_manager.py *)

\* 'Gamestop' 'V-Union' has no comma between the two literals in the source:
\* Python concatenates them into the single entry 'GamestopV-Union'
SUFFIX_RARITIES == <<
    <<"H", "o", "l", "i", "d", "a", "y", " ", "C", "a", "l", "e", "n", "d", "a", "r">>,
    <<"R", "e", "v", "e", "r", "s", "e", " ", "H", "o", "l", "o">>,
    <<"D", "e", "l", "t", "a", " ", "S", "p", "e", "c", "i", "e", "s">>,
    <<"S", "e", "c", "r", "e", "t", " ", "R", "a", "r", "e">>,
    <<"R", "a", "i", "n", "b", "o", "w", " ", "R", "a", "r", "e">>,
    <<"G", "o", "l", "d", " ", "S", "e", "c", "r", "e", "t">>,
    <<"U", "l", "t", "r", "a", " ", "R", "a", "r", "e">>,
    <<"H", "y", "p", "e", "r", " ", "R", "a", "r", "e">>,
    <<"H", "o", "l", "o">>,
    <<"V", "M", "A", "X">>,
    <<"V", "S", "T", "A", "R">>,
    <<"M", "E", "G", "A">>,
    <<"B", "R", "E", "A", "K">>,
    <<"P", "r", "i", "m", "e">>,
    <<"L", "E", "G", "E", "N", "D">>,
    <<"S", "h", "i", "n", "i", "n", "g">>,
    <<"R", "a", "d", "i", "a", "n", "t">>,
    <<"L", "v", ".", "X">>,
    <<"G", "o", "l", "d", " ", "S", "t", "a", "r">>,
    <<"P", "r", "i", "s", "m", " ", "S", "t", "a", "r">>,
    <<"S", "t", "a", "r">>,
    <<"G", "X">>,
    <<"E", "X">>,
    <<"e", "x">>,
    <<"V">>,
    <<"S", "e", "c", "r", "e", "t">>,
    <<"G", "a", "m", "e", "s", "t", "o", "p", "V", "-", "U", "n", "i", "o", "n">>,
    <<"P", "r", "e", "l", "e", "a", "s", "e">>
>>

PREFIX_RARITIES == <<
    <<"F", "u", "l", "l", " ", "A", "r", "t">>,
    <<"S", "e", "c", "r", "e", "t">>,
    <<"R", "a", "i", "n", "b", "o", "w">>,
    <<"F", "u", "t", "u", "r", "e">>
>>

SET_SUFFIXES == <<
    <<"1", "s", "t", " ", "E", "d", "i", "t", "i", "o", "n">>,
    <<"C", "r", "a", "c", "k", "e", "d", " ", "I", "c", "e">>,
    <<"S", "h", "a", "d", "o", "w", "l", "e", "s", "s">>,
    <<"P", "r", "e", "r", "e", "l", "e", "a", "s", "e">>,
    <<"U", "n", "l", "i", "m", "i", "t", "e", "d">>,
    <<"H", "o", "l", "o", "f", "o", "i", "l">>,
    <<"C", "o", "s", "m", "o", "s">>,
    <<"S", "t", "a", "m", "p", "e", "d">>,
    <<"S", "t", "a", "f", "f">>
>>

FORM_PREFIXES == <<
    <<"T", "e", "a", "m", " ", "M", "a", "g", "m", "a", "'", "s">>,
    <<"T", "e", "a", "m", " ", "A", "q", "u", "a", "'", "s">>,
    <<"O", "r", "i", "g", "i", "n", " ", "F", "o", "r", "m", "e">>,
    <<"A", "l", "t", "e", "r", "e", "d", " ", "F", "o", "r", "m", "e">>,
    <<"T", "h", "e", "r", "i", "a", "n", " ", "F", "o", "r", "m", "e">>,
    <<"I", "n", "c", "a", "r", "n", "a", "t", "e", " ", "F", "o", "r", "m", "e">>,
    <<"S", "i", "n", "g", "l", "e", " ", "S", "t", "r", "i", "k", "e">>,
    <<"R", "a", "p", "i", "d", " ", "S", "t", "r", "i", "k", "e">>,
    <<"S", "k", "y", " ", "F", "o", "r", "m", "e">>,
    <<"L", "a", "n", "d", " ", "F", "o", "r", "m", "e">>,
    <<"R", "o", "c", "k", "e", "t", "'", "s">>,
    <<"G", "i", "g", "a", "n", "t", "a", "m", "a", "x">>,
    <<"G", "a", "l", "a", "r", "i", "a", "n">>,
    <<"H", "i", "s", "u", "i", "a", "n">>,
    <<"P", "a", "l", "d", "e", "a", "n">>,
    <<"A", "l", "o", "l", "a", "n">>,
    <<"S", "h", "a", "d", "o", "w">>,
    <<"P", "r", "i", "m", "a", "l">>,
    <<"L", "i", "g", "h", "t">>,
    <<"D", "a", "r", "k">>,
    <<"M", "e", "g", "a">>,
    <<"B", "a", "s", "i", "c">>
>>

\* the character references html.unescape is given in the modelled inputs
HtmlEntities == <<
    [entity |-> <<"&", "a", "m", "p", ";">>, char |-> "&"],
    [entity |-> <<"&", "#", "3", "9", ";">>, char |-> "'"]
>>

\* html.unescape: one left-to-right pass replacing each character reference
RECURSIVE HtmlUnescape(_)
HtmlUnescape(s) ==
    IF s = EmptyStr THEN EmptyStr
    ELSE IF \E k \in 1..Len(HtmlEntities) : StartsWith(s, HtmlEntities[k].entity)
    THEN LET k == CHOOSE j \in 1..Len(HtmlEntities) : StartsWith(s, HtmlEntities[j].entity)
         IN  <<HtmlEntities[k].char>>
                \o HtmlUnescape(SubSeq(s, Len(HtmlEntities[k].entity) + 1, Len(s)))
    ELSE <<Head(s)>> \o HtmlUnescape(Tail(s))

\* re.search(rf'^{re.escape(token)}\s+', name, re.IGNORECASE)
MatchesLeading(name, token) ==
    /\ Len(name) > Len(token)
    /\ Lower(SubSeq(name, 1, Len(token))) = Lower(token)
    /\ name[Len(token) + 1] \in WhitespaceChars

\* re.search(rf'\s+{re.escape(token)}$', name, re.IGNORECASE); name never ends
\* with a newline here because every name searched has been stripped
MatchesTrailing(name, token) ==
    /\ Len(name) > Len(token)
    /\ Lower(SubSeq(name, Len(name) - Len(token) + 1, Len(name))) = Lower(token)
    /\ name[Len(name) - Len(token)] \in WhitespaceChars

\* _remove_pattern(name, rf'^{re.escape(token)}\s+'): the token and the run
\* of whitespace after it are deleted, the rest is stripped
RemoveLeading(name, token) ==
    IF MatchesLeading(name, token)
    THEN Strip(SubSeq(name, Len(token) + 1, Len(name)))
    ELSE Strip(name)

\* _remove_pattern(name, rf'\s+{re.escape(token)}$'): the run of whitespace
\* and the token are deleted, the rest is stripped
RemoveTrailing(name, token) ==
    IF MatchesTrailing(name, token)
    THEN Strip(SubSeq(name, 1, Len(name) - Len(token)))
    ELSE Strip(name)

\* index of the first table entry that matches at the start of name, 0 if none
FirstLeading(table, name) ==
    IF \E i \in 1..Len(table) : MatchesLeading(name, table[i])
    THEN CHOOSE i \in 1..Len(table) :
            /\ MatchesLeading(name, table[i])
            /\ \A j \in 1..(i - 1) : ~MatchesLeading(name, table[j])
    ELSE 0

\* the last matching entry is taken instead of the first
LastTrailing(table, name) ==
    IF \E i \in 1..Len(table) : MatchesTrailing(name, table[i])
    THEN CHOOSE i \in 1..Len(table) :
            /\ MatchesTrailing(name, table[i])
            /\ \A j \in (i + 1)..Len(table) : ~MatchesTrailing(name, table[j])
    ELSE 0

\* index of the first table entry that matches at the end of name, 0 if none
FirstTrailing(table, name) ==
    IF \E i \in 1..Len(table) : MatchesTrailing(name, table[i])
    THEN CHOOSE i \in 1..Len(table) :
            /\ MatchesTrailing(name, table[i])
            /\ \A j \in 1..(i - 1) : ~MatchesTrailing(name, table[j])
    ELSE 0

\* an absent rarity is reported as '' instead of None
find_and_remove_rarity_blank(name) ==
    LET p == FirstLeading(PREFIX_RARITIES, name)
        s == FirstTrailing(SUFFIX_RARITIES, name)
    IN  IF p # 0 THEN <<RemoveLeading(name, PREFIX_RARITIES[p]), PREFIX_RARITIES[p]>>
        ELSE IF s # 0 THEN <<RemoveTrailing(name, SUFFIX_RARITIES[s]), SUFFIX_RARITIES[s]>>
        ELSE <<name, EmptyStr>>

\* returns (cleaned, rarity)
find_and_remove_rarity(name) ==
    LET p == FirstLeading(PREFIX_RARITIES, name)
        s == FirstTrailing(SUFFIX_RARITIES, name)
    IN  IF p # 0 THEN <<RemoveLeading(name, PREFIX_RARITIES[p]), PREFIX_RARITIES[p]>>
        ELSE IF s # 0 THEN <<RemoveTrailing(name, SUFFIX_RARITIES[s]), SUFFIX_RARITIES[s]>>
        ELSE <<name, None>>

\* the loop of _remove_set_suffixes from table entry i on
RECURSIVE RemoveSetSuffixesFrom(_, _)
RemoveSetSuffixesFrom(name, i) ==
    IF i > Len(SET_SUFFIXES) THEN name
    ELSE RemoveSetSuffixesFrom(RemoveTrailing(name, SET_SUFFIXES[i]), i + 1)

remove_set_suffixes(name) == RemoveSetSuffixesFrom(name, 1)

\* returns (prefix, cleaned)
extract_form_prefix(name) ==
    LET p == FirstLeading(FORM_PREFIXES, name)
    IN  IF p # 0 THEN <<FORM_PREFIXES[p], RemoveLeading(name, FORM_PREFIXES[p])>>
        ELSE <<None, name>>

\* returns (prefix, pokemon_name, rarity)
parse_name(name) ==
    IF name = EmptyStr THEN <<None, name, None>>
    ELSE LET unescaped == Strip(HtmlUnescape(name))
             found     == find_and_remove_rarity(unescaped)
             form      == extract_form_prefix(remove_set_suffixes(found[1]))
         IN  <<form[1], form[2], found[2]>>

-----------------------------------------------------------------------------
(* MatchResolver and JoinOrchestrator: join_cards_wiki.py *)

\* a dict is a function; d[key] = value
DictPut(d, key, value) ==
    [k \in DOMAIN d \cup {key} |-> IF k = key THEN value ELSE d[k]]

EmptyDict == << >>

\* WORD_PATTERN.findall(s) scanned from position i: cur is the run of [a-z]
\* being read, acc the set of the runs already complete
RECURSIVE FindWords(_, _, _, _)
FindWords(s, i, cur, acc) ==
    IF i > Len(s) THEN (IF cur = EmptyStr THEN acc ELSE acc \cup {cur})
    ELSE IF IsWordChar(s[i]) THEN FindWords(s, i + 1, Append(cur, s[i]), acc)
    ELSE FindWords(s, i + 1, EmptyStr, IF cur = EmptyStr THEN acc ELSE acc \cup {cur})

\* set(WORD_PATTERN.findall(s)): the maximal runs of [a-z] in s
Words(s) == FindWords(s, 1, EmptyStr, {})

t_PokemonAccent == <<"(", "P", "o", "k", "é", "m", "o", "n", ")">>

t_PokemonPlain == <<"(", "P", "o", "k", "e", "m", "o", "n", ")">>

t_ListOf == <<"L", "i", "s", "t", " ", "o", "f">>

\* titles of at least this many characters are not taken from the word index
WordHitMaxLen == 50

\* title.rsplit("(", 1)[0].strip() for a title that contains "("
BeforeLastParen(title) ==
    LET i == CHOOSE k \in 1..Len(title) :
                title[k] = "(" /\ \A j \in (k + 1)..Len(title) : title[j] # "("
    IN  Strip(SubSeq(title, 1, i - 1))

HasPokemonSuffix(title) ==
    EndsWith(title, t_PokemonAccent) \/ EndsWith(title, t_PokemonPlain)

\* a key that is already in the map keeps its title
RECURSIVE BuildExact_first_wins(_, _, _)
BuildExact_first_wins(titles, i, exact) ==
    IF i > Len(titles) THEN exact
    ELSE LET title == titles[i]
             e1 == IF Lower(title) \in DOMAIN exact THEN exact
                   ELSE DictPut(exact, Lower(title), title)
             e2 == IF HasPokemonSuffix(title) /\ Lower(BeforeLastParen(title)) \notin DOMAIN e1
                   THEN DictPut(e1, Lower(BeforeLastParen(title)), title)
                   ELSE e1
         IN  BuildExact_first_wins(titles, i + 1, e2)

\* the loop over wiki_titles that fills wiki_exact, from position i on
RECURSIVE BuildExact(_, _, _)
BuildExact(titles, i, exact) ==
    IF i > Len(titles) THEN exact
    ELSE LET title == titles[i]
             e1 == DictPut(exact, Lower(title), title)
             e2 == IF HasPokemonSuffix(title)
                   THEN DictPut(e1, Lower(BeforeLastParen(title)), title)
                   ELSE e1
         IN  BuildExact(titles, i + 1, e2)

\* the loop over wiki_titles that fills wiki_normalized, from position i on
RECURSIVE BuildNormalized(_, _, _)
BuildNormalized(titles, i, norm) ==
    IF i > Len(titles) THEN norm
    ELSE LET title == titles[i]
             n1 == DictPut(norm, normalize(title), title)
             n2 == IF HasPokemonSuffix(title)
                   THEN DictPut(n1, normalize(BeforeLastParen(title)), title)
                   ELSE n1
         IN  BuildNormalized(titles, i + 1, n2)

SeqToSet(s) == {s[i] : i \in 1..Len(s)}

\* word -> set of the titles that contain the word
build_title_index(titles) ==
    [w \in UNION {Words(Lower(titles[i])) : i \in 1..Len(titles)} |->
        {t \in SeqToSet(titles) : w \in Words(Lower(t))}]

\* kw in s
Contains(s, kw) ==
    \E i \in 1..(Len(s) - Len(kw) + 1) :
        s[i] = kw[1] /\ SubSeq(s, i, i + Len(kw) - 1) = kw

\* the base name is looked for anywhere in the text
build_text_index_substring(text, names) ==
    [name \in SeqToSet(names) |->
        {t \in DOMAIN text : Contains(Lower(text[t]), Lower(extract_base_pokemon(name)))}]

\* pokemon name -> set of the titles whose text contains the lower-cased base
\* name of the pokemon as a word; text is a dict title -> text
build_text_index(text, names) ==
    [name \in SeqToSet(names) |->
        {t \in DOMAIN text : Lower(extract_base_pokemon(name)) \in Words(Lower(text[t]))}]

\* the keys join_pokemon_wiki derives from the name of one entity
EntityKeys(pokemon) ==
    [pokemon_lower |-> Lower(pokemon),
     pokemon_norm  |-> normalize(pokemon),
     base_lower    |-> Lower(extract_base_pokemon(pokemon)),
     base_norm     |-> normalize(extract_base_pokemon(pokemon))]

\* a title of exactly WordHitMaxLen characters passes the filter
WordHits_up_to_limit(n, words) ==
    IF n \in DOMAIN words
    THEN {t \in words[n] : ~StartsWith(t, t_ListOf) /\ Len(t) <= WordHitMaxLen}
    ELSE {}

\* the negation of the "List of" test is lost
WordHits_list_only(n, words) ==
    IF n \in DOMAIN words
    THEN {t \in words[n] : StartsWith(t, t_ListOf) /\ Len(t) < WordHitMaxLen}
    ELSE {}

\* the titles the word index gives for the key n, after the filter
WordHits(n, words) ==
    IF n \in DOMAIN words
    THEN {t \in words[n] : ~StartsWith(t, t_ListOf) /\ Len(t) < WordHitMaxLen}
    ELSE {}

\* the candidates without the hits of the text index
MatchedWikis_without_text(pokemon, k, exact, norm, words, textidx) ==
    (IF k.base_lower # k.pokemon_lower /\ k.base_lower \in DOMAIN exact
        THEN {exact[k.base_lower]} ELSE {})
    \cup (IF k.pokemon_lower \in DOMAIN exact THEN {exact[k.pokemon_lower]} ELSE {})
    \cup (IF k.base_norm # k.pokemon_norm /\ k.base_norm \in DOMAIN norm
            THEN {norm[k.base_norm]} ELSE {})
    \cup (IF k.pokemon_norm \in DOMAIN norm THEN {norm[k.pokemon_norm]} ELSE {})
    \cup WordHits(k.base_norm, words)
    \cup WordHits(k.pokemon_norm, words)

\* the candidate titles of one entity (matched_wikis), as a set
MatchedWikis(pokemon, k, exact, norm, words, textidx) ==
    (IF k.base_lower # k.pokemon_lower /\ k.base_lower \in DOMAIN exact
        THEN {exact[k.base_lower]} ELSE {})
    \cup (IF k.pokemon_lower \in DOMAIN exact THEN {exact[k.pokemon_lower]} ELSE {})
    \cup (IF k.base_norm # k.pokemon_norm /\ k.base_norm \in DOMAIN norm
            THEN {norm[k.base_norm]} ELSE {})
    \cup (IF k.pokemon_norm \in DOMAIN norm THEN {norm[k.pokemon_norm]} ELSE {})
    \cup WordHits(k.base_norm, words)
    \cup WordHits(k.pokemon_norm, words)
    \cup (IF DOMAIN textidx # {} /\ pokemon \in DOMAIN textidx
            THEN textidx[pokemon] ELSE {})

t_pokemonAccentLower == <<" ", "(", "p", "o", "k", "é", "m", "o", "n", ")">>

t_pokemonPlainLower == <<" ", "(", "p", "o", "k", "e", "m", "o", "n", ")">>

\* the prefix tier of the base name is given whether or not the base differs
sort_key_unguarded_prefix(title, k) ==
    LET tl == Lower(title)
        base_differs == k.base_lower # k.pokemon_lower
    IN  IF base_differs /\ tl = k.base_lower THEN 0
        ELSE IF base_differs
                /\ tl \in {k.base_lower \o t_pokemonAccentLower,
                           k.base_lower \o t_pokemonPlainLower} THEN 1
        ELSE IF tl = k.pokemon_lower THEN 2
        ELSE IF tl \in {k.pokemon_lower \o t_pokemonAccentLower,
                        k.pokemon_lower \o t_pokemonPlainLower} THEN 3
        ELSE IF StartsWith(tl, k.base_lower) THEN 4
        ELSE IF StartsWith(tl, k.pokemon_lower) THEN 5
        ELSE 6

\* the tier of a title for the entity with keys k
sort_key(title, k) ==
    LET tl == Lower(title)
        base_differs == k.base_lower # k.pokemon_lower
    IN  IF base_differs /\ tl = k.base_lower THEN 0
        ELSE IF base_differs
                /\ tl \in {k.base_lower \o t_pokemonAccentLower,
                           k.base_lower \o t_pokemonPlainLower} THEN 1
        ELSE IF tl = k.pokemon_lower THEN 2
        ELSE IF tl \in {k.pokemon_lower \o t_pokemonAccentLower,
                        k.pokemon_lower \o t_pokemonPlainLower} THEN 3
        ELSE IF base_differs /\ StartsWith(tl, k.base_lower) THEN 4
        ELSE IF StartsWith(tl, k.pokemon_lower) THEN 5
        ELSE 6

Tiers == 0..6

\* sorted(order, key=sort_key): Python's sort is stable, so titles of one tier
\* keep the relative order they have in the iteration order of the set
RECURSIVE SortedFrom(_, _, _)
SortedFrom(order, k, tier) ==
    IF tier \notin Tiers THEN << >>
    ELSE LET InTier(t) == sort_key(t, k) = tier
         IN  SelectSeq(order, InTier) \o SortedFrom(order, k, tier + 1)

\* list(matched_wikis): the candidates are not sorted
unsorted(order, k) == order

sorted_by_sort_key(order, k) == SortedFrom(order, k, 0)

\* the orders in which iterating over the set S can yield its elements: the
\* iteration order of a set of str depends on the hash seed of the process
IterationOrders(S) ==
    {f \in [1..Cardinality(S) -> S] : \A i, j \in 1..Cardinality(S) : f[i] = f[j] => i = j}

Qualifies(title, info) == title \in DOMAIN info /\ info[title].has_pokemon_info

\* the has_pokemon_info test is lost: the first title found in wiki_info
BestWikiPage_any_entry(sorted_wikis, info) ==
    IF \E i \in 1..Len(sorted_wikis) : sorted_wikis[i] \in DOMAIN info
    THEN sorted_wikis[CHOOSE i \in 1..Len(sorted_wikis) :
            /\ sorted_wikis[i] \in DOMAIN info
            /\ \A j \in 1..(i - 1) : sorted_wikis[j] \notin DOMAIN info]
    ELSE None

\* the loop over sorted_wikis: the first title that qualifies, or None
BestWikiPage(sorted_wikis, info) ==
    IF \E i \in 1..Len(sorted_wikis) : Qualifies(sorted_wikis[i], info)
    THEN sorted_wikis[CHOOSE i \in 1..Len(sorted_wikis) :
            /\ Qualifies(sorted_wikis[i], info)
            /\ \A j \in 1..(i - 1) : ~Qualifies(sorted_wikis[j], info)]
    ELSE None

\* pokemon_wiki_info: the attributes of the page are copied key by key (the
\* model carries species and description of the thirteen copied attributes)
CopiedInfo(page_info) == <<page_info.species, page_info.description>>

\* a result that counts one card whatever the group holds
MatchResult_single_card(entry, k, order, info) ==
    LET sorted_wikis == sorted_by_sort_key(order, k)
        best == BestWikiPage(sorted_wikis, info)
    IN  [pokemon        |-> entry.pokemon,
         card_count     |-> 1,
         cards          |-> entry.cards,
         wiki_pages     |-> sorted_wikis,
         best_wiki_page |-> best,
         wiki_info      |-> IF best = None THEN None ELSE CopiedInfo(info[best])]

\* the dict appended to results for one entity
MatchResult(entry, k, order, info) ==
    LET sorted_wikis == sorted_by_sort_key(order, k)
        best == BestWikiPage(sorted_wikis, info)
    IN  [pokemon        |-> entry.pokemon,
         card_count     |-> Len(entry.cards),
         cards          |-> entry.cards,
         wiki_pages     |-> sorted_wikis,
         best_wiki_page |-> best,
         wiki_info      |-> IF best = None THEN None ELSE CopiedInfo(info[best])]

-----------------------------------------------------------------------------
(* Names used as inputs *)

s_Wooper == <<"W", "o", "o", "p", "e", "r">>

s_PaldeanWooper == <<"P", "a", "l", "d", "e", "a", "n", " ", "W", "o", "o", "p", "e", "r">>

s_PaldeanWooperEx == <<"P", "a", "l", "d", "e", "a", "n", " ", "W", "o", "o", "p", "e", "r", " ", "e", "x">>

s_PaldeanWooperReverseHolo == <<"P", "a", "l", "d", "e", "a", "n", " ", "W", "o", "o", "p", "e", "r", " ", "R", "e", "v", "e", "r", "s", "e", " ", "H", "o", "l", "o">>

s_WooperReverseHolo == <<"W", "o", "o", "p", "e", "r", " ", "R", "e", "v", "e", "r", "s", "e", " ", "H", "o", "l", "o">>

s_Pikachu == <<"P", "i", "k", "a", "c", "h", "u">>

s_PikachuV == <<"P", "i", "k", "a", "c", "h", "u", " ", "V">>

s_MegaCharizardEX == <<"M", "e", "g", "a", " ", "C", "h", "a", "r", "i", "z", "a", "r", "d", " ", "E", "X">>

\* characters of the arbitrary short names: a letter, an upper-case letter
\* whose lower case is a suffix token, a digit that is a suffix token, a
\* blank, punctuation and a non-ASCII letter
NameAlphabet == {"a", "V", "4", " ", ".", "É"}

DecoratedNames == {s_Wooper, s_PaldeanWooper, s_PaldeanWooperEx, s_PaldeanWooperReverseHolo,
                   s_WooperReverseHolo, s_Pikachu, s_PikachuV, s_MegaCharizardEX,
                    <<"O", "r", "i", "g", "i", "n", " ", "F", "o", "r", "m", "e", " ", "D", "i", "a", "l", "g", "a">>, <<"M", "r", ".", " ", "M", "i", "m", "e">>, <<" ", " ", "d", "a", "r", "k", " ", "R", "a", "i", "c", "h", "u", " ", "L", "V", ".", "X", " ">>, <<"m", "e", "g", "a", " ">>}

NameInputs == StringsUpTo(NameAlphabet, MaxStrLen) \cup DecoratedNames

-----------------------------------------------------------------------------
(* NameNormalizer as a state machine: a name is drawn, the two functions are
   applied to it, and normalize is applied again to its own result *)

\* save_results has not been called
NoOutput ==
    /\ stats = EmptyDict
    /\ written = {}
    /\ joined_file = << >>
    /\ matched_file = << >>
    /\ stats_file = EmptyDict

\* the loaders are not running
NoLoad ==
    /\ cards_dir = << >>
    /\ files_read = 0
    /\ loaded_cards = << >>
    /\ text_file = << >>
    /\ loaded_text = EmptyDict
    /\ load_pc = "idle"

\* cmd_all is not running
NoAll ==
    /\ args = EmptyDict
    /\ started = << >>
    /\ raised = {}
    /\ all_pc = "idle"
    /\ exit_code = -1

\* parse_card has not been called
NoParse ==
    /\ html_content = EmptyDict
    /\ parse_card_result = EmptyDict

\* sort_key has not been called
NoSortKey ==
    /\ sk_pokemon = EmptyStr
    /\ sk_title = EmptyStr
    /\ sk_tier = -1

\* _clean_wiki_markup is not running on its own
NoClean ==
    /\ clean_input = EmptyStr
    /\ clean_text = EmptyStr
    /\ clean_passes = 0
    /\ clean_pc = "idle"

\* extract_description is not running on its own
NoDesc ==
    /\ desc_text = EmptyStr
    /\ paragraphs = << >>
    /\ desc_result = None
    /\ desc_pc = "idle"

\* the crawler is not running
NoCrawl ==
    /\ links = << >>
    /\ links_to_crawl = << >>
    /\ robots = {}
    /\ crawl_results = {}
    /\ batch_links = {}
    /\ crawl_pc = "idle"

\* extract_all_info has not been called
NoExtract ==
    /\ page_title = EmptyStr
    /\ page_text = << >>
    /\ all_info = EmptyDict
    /\ extracted = FALSE

\* run_join has not been started
NoJoin ==
    /\ pc = "idle"
    /\ run = 1
    /\ pokemon_cards = << >>
    /\ wiki_titles = << >>
    /\ wiki_info = EmptyDict
    /\ wiki_text = EmptyDict
    /\ text_index = EmptyDict
    /\ wiki_exact = EmptyDict
    /\ wiki_normalized = EmptyDict
    /\ title_word_index = EmptyDict
    /\ results = << >>
    /\ first_results = << >>

\* no PokeCard has been constructed
NoCard ==
    /\ card_built = FALSE
    /\ full_name = EmptyStr
    /\ prefix = None
    /\ pokemon_name = None
    /\ rarity = None

InitNames ==
    /\ nm_name \in NameInputs
    /\ nm_norm = None
    /\ nm_renorm = None
    /\ nm_base = None
    /\ NoCard
    /\ NoJoin
    /\ NoExtract
    /\ NoOutput
    /\ NoLoad
    /\ NoAll
    /\ NoParse
    /\ NoSortKey
    /\ NoClean
    /\ NoDesc
    /\ NoCrawl

Normalize ==
    /\ nm_norm = None
    /\ nm_norm' = normalize(nm_name)
    /\ UNCHANGED <<nm_name, nm_renorm, nm_base, cardVars, joinVars, extractVars, outputVars, loadVars, allVars, parseVars, sortKeyVars, cleanVars, descVars, crawlVars>>

Renormalize ==
    /\ nm_norm # None
    /\ nm_renorm = None
    /\ nm_renorm' = normalize(nm_norm)
    /\ UNCHANGED <<nm_name, nm_norm, nm_base, cardVars, joinVars, extractVars, outputVars, loadVars, allVars, parseVars, sortKeyVars, cleanVars, descVars, crawlVars>>

ExtractBase ==
    /\ nm_base = None
    /\ nm_base' = extract_base_pokemon(nm_name)
    /\ UNCHANGED <<nm_name, nm_norm, nm_renorm, cardVars, joinVars, extractVars, outputVars, loadVars, allVars, parseVars, sortKeyVars, cleanVars, descVars, crawlVars>>

NextNames == Normalize \/ Renormalize \/ ExtractBase

SpecNames == InitNames /\ [][NextNames]_vars

-----------------------------------------------------------------------------
(* Card names used as inputs *)

\* characters of the arbitrary short card names: letters that spell the
\* rarities "V" and "ex", another letter, a blank and a tab
CardAlphabet == {"V", "e", "x", "a", " ", "\t"}

CardNames == {s_PaldeanWooperReverseHolo, s_Wooper, s_PikachuV, s_MegaCharizardEX,
              <<"F", "u", "l", "l", " ", "A", "r", "t", " ", "P", "i", "k", "a", "c", "h", "u", " ", "V", "M", "A", "X">>,
              <<"P", "i", "k", "a", "c", "h", "u", " ", "H", "o", "l", "o", " ", "1", "s", "t", " ", "E", "d", "i", "t", "i", "o", "n">>,
              <<"P", "i", "k", "a", "c", "h", "u", " ", "S", "t", "a", "f", "f", " ", "1", "s", "t", " ", "E", "d", "i", "t", "i", "o", "n">>,
              <<"P", "i", "k", "a", "c", "h", "u", " ", "1", "s", "t", " ", "E", "d", "i", "t", "i", "o", "n", " ", "S", "t", "a", "f", "f">>,
              <<"d", "a", "r", "k", " ", " ", "R", "a", "i", "c", "h", "u">>,
              <<"s", "e", "c", "r", "e", "t", " ", "R", "a", "r", "e", " ", "M", "e", "w">>,
              <<"M", "e", "w", " ", "S", "e", "c", "r", "e", "t", " ", "R", "a", "r", "e">>,
              <<"P", "i", "k", "a", "c", "h", "u", " ", "G", "a", "m", "e", "s", "t", "o", "p">>,
              <<"P", "i", "k", "a", "c", "h", "u", " ", "V", "-", "U", "n", "i", "o", "n">>,
              <<"T", "e", "a", "m", " ", "M", "a", "g", "m", "a", "'", "s", " ", "G", "r", "o", "u", "d", "o", "n">>,
              <<"F", "a", "r", "f", "e", "t", "c", "h", "&", "#", "3", "9", ";", "d">>,
              <<" ", "M", "e", "g", "a", " ", "N", "i", "d", "o", "r", "a", "n", " ", "&", "a", "m", "p", ";", " ", "C", "o", "\t", "e", "x", " ">>,
              <<"H", "o", "l", "o">>,
              <<"P", "a", "l", "d", "e", "a", "n", " ", "H", "o", "l", "o">>}

CardNameInputs == StringsUpTo(CardAlphabet, MaxStrLen) \cup CardNames

-----------------------------------------------------------------------------
(* PokeCard as a state machine: a card is constructed from a full name *)

\* normalize and extract_base_pokemon have not been called
NoNames ==
    /\ nm_name = EmptyStr
    /\ nm_norm = None
    /\ nm_renorm = None
    /\ nm_base = None

InitCard ==
    /\ NoCard
    /\ NoNames
    /\ NoJoin
    /\ NoExtract
    /\ NoOutput
    /\ NoLoad
    /\ NoAll
    /\ NoParse
    /\ NoSortKey
    /\ NoClean
    /\ NoDesc
    /\ NoCrawl

\* PokeCard.__init__: self.full_name = name and
\* self.prefix, self.pokemon_name, self.rarity = self._parse_name(name)
NewPokeCard(name) ==
    /\ card_built = FALSE
    /\ card_built' = TRUE
    /\ full_name' = name
    /\ prefix' = parse_name(name)[1]
    /\ pokemon_name' = parse_name(name)[2]
    /\ rarity' = parse_name(name)[3]
    /\ UNCHANGED <<nmVars, joinVars, extractVars, outputVars, loadVars, allVars, parseVars, sortKeyVars, cleanVars, descVars, crawlVars>>

NextCard == \E name \in CardNameInputs : NewPokeCard(name)

SpecCard == InitCard /\ [][NextCard]_vars

-----------------------------------------------------------------------------
(* Inputs of the join *)

t_Pikachu == <<"P", "i", "k", "a", "c", "h", "u">>

t_PIKACHU == <<"P", "I", "K", "A", "C", "H", "U">>

t_PikachuPokemon == <<"P", "i", "k", "a", "c", "h", "u", " ", "(", "P", "o", "k", "é", "m", "o", "n", ")">>

t_ListOfPokemon == <<"L", "i", "s", "t", " ", "o", "f", " ", "P", "o", "k", "é", "m", "o", "n">>

s_MrMime == <<"M", "r", ".", " ", "M", "i", "m", "e">>

t_MrMime == s_MrMime

t_MrMimePokemon == s_MrMime \o <<" ", "(", "P", "o", "k", "é", "m", "o", "n", ")">>

\* most titles in the title list (wiki_pages.json)
MaxTitles == 2

\* a title of exactly WordHitMaxLen characters with the word pikachu in it
t_LongPikachuTitle ==
    s_Pikachu \o <<" ">> \o [i \in 1..(WordHitMaxLen - Len(s_Pikachu) - 1) |-> "x"]

TitleUniverse == {t_Pikachu, t_PIKACHU, t_PikachuPokemon, t_ListOfPokemon}

\* the title list of the end-to-end example
EndToEndTitles == <<t_Pikachu, t_ListOfPokemon, t_PikachuPokemon>>

\* the title lists: no title twice, any order, and the end-to-end example
TitleLists ==
    {f \in UNION {[1..n -> TitleUniverse] : n \in 0..MaxTitles} :
        \A i, j \in 1..Len(f) : f[i] = f[j] => i = j}
    \cup {EndToEndTitles, <<t_LongPikachuTitle, t_Pikachu>>,
          <<t_MrMime, t_MrMimePokemon>>, <<t_MrMimePokemon, t_MrMime>>}

\* the article text of each title in wiki_pages_with_text.json
TextOf(title) ==
    CASE title = t_Pikachu -> <<"P", "i", "k", "a", "c", "h", "u", " ", "i", "s", " ", "a", " ", "M", "o", "u", "s", "e", ".">>
      [] title = t_PIKACHU -> <<"A", " ", "1", "9", "9", "9", " ", "a", "l", "b", "u", "m">>
      [] title = t_PikachuPokemon -> <<"#", "R", "E", "D", "I", "R", "E", "C", "T", " ", "[", "[", "P", "i", "k", "a", "c", "h", "u", "]", "]">>
      [] title = t_ListOfPokemon -> <<"E", "e", "v", "e", "e", ",", "p", "i", "k", "a", "c", "h", "u">>
      [] title = t_LongPikachuTitle -> <<"p", "i", "k", "a", "c", "h", "u", " ", "x">>
      [] title = t_MrMime -> s_MrMime \o <<" ", "m", "i", "m", "e", "s">>
      [] title = t_MrMimePokemon -> <<"#", "R", "E", "D", "I", "R", "E", "C", "T", " ", "[", "[">> \o s_MrMime \o <<"]", "]">>

\* the entries a page can have in wiki_info_lookup.json
PageInfos ==
    {[has_pokemon_info |-> TRUE,  species |-> <<"M", "o", "u", "s", "e", " ", "P", "o", "k", "é", "m", "o", "n">>, description |-> <<"I", "n", "t", "r", "o">>],
     [has_pokemon_info |-> FALSE, species |-> None,    description |-> <<"I", "n", "t", "r", "o">>]}

\* wiki_info: a dict from some of the titles to their page info
WikiInfos(titles) == UNION {[S -> PageInfos] : S \in SUBSET SeqToSet(titles)}

\* the card groups load_cards can return: dicts in insertion order
CardGroups ==
    {<<[pokemon |-> s_Pikachu, cards |-> <<"c1", "c2">>]>>,
     <<[pokemon |-> s_PikachuV, cards |-> <<"c3">>]>>,
     <<[pokemon |-> s_Pikachu, cards |-> <<"c1", "c2">>],
       [pokemon |-> s_PikachuV, cards |-> <<"c3">>]>>,
     <<[pokemon |-> s_PikachuV, cards |-> <<"c3">>],
       [pokemon |-> s_Pikachu, cards |-> <<"c1", "c2">>]>>,
     <<[pokemon |-> s_Wooper, cards |-> <<"c4">>],
       [pokemon |-> s_Pikachu, cards |-> <<"c1", "c2">>]>>,
     <<[pokemon |-> s_MrMime, cards |-> <<"c5">>]>>}

Names(groups) == [i \in 1..Len(groups) |-> groups[i].pokemon]

\* the characters of the names and titles in ascending code point order
CodePointOrder == <<" ", "#", "(", ")", ",", ".", "0", "1", "2", "3", "4", "5", "6", "7", "8", "9", "A", "B", "C", "D", "E", "F", "G", "H", "I", "J", "K", "L", "M", "N", "O", "P", "Q", "R", "S", "T", "U", "V", "W", "X", "Y", "Z", "[", "]", "a", "b", "c", "d", "e", "f", "g", "h", "i", "j", "k", "l", "m", "n", "o", "p", "q", "r", "s", "t", "u", "v", "w", "x", "y", "z", "É", "é">>

CodePoint(c) == CHOOSE i \in 1..Len(CodePointOrder) : CodePointOrder[i] = c

\* a < b for two Python str: order of the code points, a prefix is smaller
RECURSIVE StrLess(_, _)
StrLess(a, b) ==
    IF b = EmptyStr THEN FALSE
    ELSE IF a = EmptyStr THEN TRUE
    ELSE IF Head(a) = Head(b) THEN StrLess(Tail(a), Tail(b))
    ELSE CodePoint(Head(a)) < CodePoint(Head(b))

\* sorted(results, key=lambda x: x['pokemon']): a stable insertion sort
RECURSIVE InsertByPokemon(_, _)
InsertByPokemon(sorted_results, r) ==
    IF sorted_results = << >> THEN <<r>>
    ELSE IF StrLess(r.pokemon, Head(sorted_results).pokemon)
    THEN <<r>> \o sorted_results
    ELSE <<Head(sorted_results)>> \o InsertByPokemon(Tail(sorted_results), r)

RECURSIVE SortedByPokemon(_)
SortedByPokemon(rs) ==
    IF rs = << >> THEN << >>
    ELSE InsertByPokemon(SortedByPokemon(SubSeq(rs, 1, Len(rs) - 1)), rs[Len(rs)])

\* every result goes in the matched-only list
MatchedOnly_unfiltered(rs) ==
    rs

\* [r for r in results if r['wiki_pages']]
MatchedOnly(rs) ==
    LET HasPages(r) == Len(r.wiki_pages) > 0
    IN  SelectSeq(rs, HasPages)

\* sum(r['card_count'] for r in results)
RECURSIVE TotalCards(_)
TotalCards(rs) ==
    IF rs = << >> THEN 0 ELSE Head(rs).card_count + TotalCards(Tail(rs))

\* the JoinStats run_join builds; match_rate is in tenths of a percent, as
\* save_results prints it with one decimal
JoinStats(rs, titles) ==
    [total_pokemon        |-> Len(rs),
     total_cards          |-> TotalCards(rs),
     total_wiki_pages     |-> Len(titles),
     pokemon_with_wiki    |-> Len(MatchedOnly(rs)),
     pokemon_without_wiki |-> Len(rs) - Len(MatchedOnly(rs)),
     match_rate           |-> IF Len(rs) > 0
                              THEN (Len(MatchedOnly(rs)) * 1000) \div Len(rs)
                              ELSE 0]

\* the three files save_results writes
OutputFiles == {"pokemon_with_wiki", "pokemon_matched_wiki", "join_stats"}

-----------------------------------------------------------------------------
(* run_join as a state machine: the inputs have been loaded; the text index
   and the title indices are built, the entities are matched one by one in
   dict order, and the run is repeated once on the same inputs *)

InitJoin ==
    /\ pc = "loaded"
    /\ run = 1
    /\ pokemon_cards \in CardGroups \cup {<< >>}
    /\ wiki_titles \in TitleLists
    /\ wiki_info \in WikiInfos(wiki_titles)
    /\ wiki_text \in {EmptyDict, [t \in SeqToSet(wiki_titles) |-> TextOf(t)]}
    /\ text_index = EmptyDict
    /\ wiki_exact = EmptyDict
    /\ wiki_normalized = EmptyDict
    /\ title_word_index = EmptyDict
    /\ results = << >>
    /\ first_results = << >>
    /\ NoNames
    /\ NoCard
    /\ NoExtract
    /\ NoOutput
    /\ NoLoad
    /\ NoAll
    /\ NoParse
    /\ NoSortKey
    /\ NoClean
    /\ NoDesc
    /\ NoCrawl

\* run_join: raise ValueError when no cards or no wiki titles were loaded
AbortJoin ==
    /\ pc = "loaded"
    /\ pokemon_cards = << >> \/ wiki_titles = << >>
    /\ pc' = "failed"
    /\ UNCHANGED <<run, inputVars, indexVars, results, first_results>>
    /\ UNCHANGED <<nmVars, cardVars, extractVars, outputVars, loadVars, allVars, parseVars, sortKeyVars, cleanVars, descVars, crawlVars>>

\* run_join going on although no wiki titles were loaded
BuildTextIndex_without_titles_check ==
    /\ pc = "loaded"
    /\ pokemon_cards # << >>
    /\ text_index' = IF DOMAIN wiki_text # {}
                     THEN build_text_index(wiki_text, Names(pokemon_cards))
                     ELSE EmptyDict
    /\ pc' = "join"
    /\ UNCHANGED <<run, inputVars, wiki_exact, wiki_normalized, title_word_index>>
    /\ UNCHANGED <<results, first_results, nmVars, cardVars, extractVars, outputVars, loadVars, allVars, parseVars, sortKeyVars, cleanVars, descVars, crawlVars>>

\* run_join: text_index = build_text_index(...) if wiki_text else None (the
\* empty dict stands for None: join_pokemon_wiki only tests its truth value)
BuildTextIndex ==
    /\ pc = "loaded"
    /\ pokemon_cards # << >>
    /\ wiki_titles # << >>
    /\ text_index' = IF DOMAIN wiki_text # {}
                     THEN build_text_index(wiki_text, Names(pokemon_cards))
                     ELSE EmptyDict
    /\ pc' = "join"
    /\ UNCHANGED <<run, inputVars, wiki_exact, wiki_normalized, title_word_index>>
    /\ UNCHANGED <<results, first_results, nmVars, cardVars, extractVars, outputVars, loadVars, allVars, parseVars, sortKeyVars, cleanVars, descVars, crawlVars>>

\* join_pokemon_wiki up to the loop over the entities
BuildIndices ==
    /\ pc = "join"
    /\ wiki_exact' = BuildExact(wiki_titles, 1, EmptyDict)
    /\ wiki_normalized' = BuildNormalized(wiki_titles, 1, EmptyDict)
    /\ title_word_index' = build_title_index(wiki_titles)
    /\ pc' = "loop"
    /\ UNCHANGED <<run, inputVars, text_index, results, first_results>>
    /\ UNCHANGED <<nmVars, cardVars, extractVars, outputVars, loadVars, allVars, parseVars, sortKeyVars, cleanVars, descVars, crawlVars>>

\* an iteration that takes the exact match of the entity out of the title map
MatchEntity_consuming_exact ==
    /\ pc = "loop"
    /\ Len(results) < Len(pokemon_cards)
    /\ LET entry == pokemon_cards[Len(results) + 1]
           k == EntityKeys(entry.pokemon)
           matched_wikis == MatchedWikis(entry.pokemon, k, wiki_exact, wiki_normalized,
                                         title_word_index, text_index)
       IN  /\ \E order \in IterationOrders(matched_wikis) :
                results' = Append(results, MatchResult(entry, k, order, wiki_info))
           /\ wiki_exact' = [key \in DOMAIN wiki_exact \ {k.pokemon_lower} |->
                                wiki_exact[key]]
    /\ UNCHANGED <<pc, run, inputVars, wiki_normalized, title_word_index, text_index>>
    /\ UNCHANGED <<first_results, nmVars, cardVars, extractVars, outputVars, loadVars, allVars, parseVars, sortKeyVars, cleanVars, descVars, crawlVars>>

\* one iteration of the loop over pokemon_cards.items()
MatchEntity ==
    /\ pc = "loop"
    /\ Len(results) < Len(pokemon_cards)
    /\ LET entry == pokemon_cards[Len(results) + 1]
           k == EntityKeys(entry.pokemon)
           matched_wikis == MatchedWikis(entry.pokemon, k, wiki_exact, wiki_normalized,
                                         title_word_index, text_index)
       IN  \E order \in IterationOrders(matched_wikis) :
                results' = Append(results, MatchResult(entry, k, order, wiki_info))
    /\ UNCHANGED <<pc, run, inputVars, indexVars, first_results>>
    /\ UNCHANGED <<nmVars, cardVars, extractVars, outputVars, loadVars, allVars, parseVars, sortKeyVars, cleanVars, descVars, crawlVars>>

\* join_pokemon_wiki returns results
ReturnResults ==
    /\ pc = "loop"
    /\ Len(results) = Len(pokemon_cards)
    /\ pc' = "done"
    /\ UNCHANGED <<run, inputVars, indexVars, results, first_results>>
    /\ UNCHANGED <<nmVars, cardVars, extractVars, outputVars, loadVars, allVars, parseVars, sortKeyVars, cleanVars, descVars, crawlVars>>

\* run_join after join_pokemon_wiki: the statistics, then save_results
SaveResults ==
    /\ pc = "done"
    /\ stats' = JoinStats(results, wiki_titles)
    /\ joined_file' = SortedByPokemon(results)
    /\ matched_file' = MatchedOnly(SortedByPokemon(results))
    /\ stats_file' = JoinStats(results, wiki_titles)
    /\ written' = OutputFiles
    /\ pc' = "saved"
    /\ UNCHANGED <<run, inputVars, indexVars, results, first_results>>
    /\ UNCHANGED <<nmVars, cardVars, extractVars, loadVars, allVars, parseVars, sortKeyVars, cleanVars, descVars, crawlVars>>

\* a second run of the program over the same loaded inputs; the files of the
\* first run stay on the disk
RunAgain ==
    /\ pc = "saved"
    /\ run = 1
    /\ run' = 2
    /\ first_results' = results
    /\ results' = << >>
    /\ text_index' = EmptyDict
    /\ wiki_exact' = EmptyDict
    /\ wiki_normalized' = EmptyDict
    /\ title_word_index' = EmptyDict
    /\ pc' = "loaded"
    /\ stats' = EmptyDict
    /\ written' = {}
    /\ UNCHANGED <<joined_file, matched_file, stats_file>>
    /\ UNCHANGED <<inputVars, nmVars, cardVars, extractVars, loadVars, allVars, parseVars, sortKeyVars, cleanVars, descVars, crawlVars>>

NextJoin ==
    \/ AbortJoin
    \/ BuildTextIndex
    \/ BuildIndices
    \/ MatchEntity
    \/ ReturnResults
    \/ SaveResults

\* one run of run_join
SpecJoin == InitJoin /\ [][NextJoin]_vars

NextJoinTwice ==
    \/ AbortJoin
    \/ BuildTextIndex
    \/ BuildIndices
    \/ MatchEntity
    \/ ReturnResults
    \/ SaveResults
    \/ RunAgain

\* two runs of run_join over the same inputs
SpecJoinTwice == InitJoin /\ [][NextJoinTwice]_vars

-----------------------------------------------------------------------------
(* Properties of NameNormalizer *)

\* C5 (as claimed): "Paldean Wooper Reverse Holo" and "Wooper" both give the
\* extract_base_pokemon result "Wooper".
C5_BothGiveWooper ==
    (nm_base # None /\ nm_name \in {s_PaldeanWooperReverseHolo, s_Wooper})
        => nm_base = s_Wooper

\* C5 (amended): names decorated with a listed prefix and a listed suffix
\* ("Paldean Wooper ex", "Paldean Wooper") give the same result "Wooper" as
\* "Wooper" itself, while "Reverse Holo" is not a listed suffix and
\* "Paldean Wooper Reverse Holo" gives "Wooper Reverse Holo".
C5_ListedDecorationsGiveWooper ==
    nm_base # None =>
        /\ nm_name \in {s_PaldeanWooperEx, s_PaldeanWooper, s_Wooper}
                => nm_base = s_Wooper
        /\ nm_name = s_PaldeanWooperReverseHolo => nm_base = s_WooperReverseHolo

C5_Witness == nm_name = s_PaldeanWooperEx /\ nm_base = s_Wooper

\* C9: normalize is total and idempotent: its result is a string of
\* characters of [a-z0-9] only, normalizing the result again changes nothing,
\* and the empty string normalizes to the empty string.
C9_NormalizeIdempotentTotal ==
    /\ nm_norm # None =>
            /\ nm_norm \in Seq(AsciiLowerChars \cup DigitChars)
            /\ nm_name = EmptyStr => nm_norm = EmptyStr
    /\ nm_renorm # None => nm_renorm = nm_norm

\* a name with an upper-case letter and two rejected characters was
\* normalized twice
C9_Witness ==
    /\ nm_renorm # None
    /\ nm_norm # EmptyStr
    /\ \E i \in 1..Len(nm_name) : IsUpperChar(nm_name[i])
    /\ Len(nm_name) >= Len(nm_norm) + 2

\* the name starts with no listed prefix followed by a space and ends with
\* no listed suffix preceded by a space, case ignored
NothingStrips(name) ==
    /\ \A i \in 1..Len(PREFIXES) : ~StartsWith(Lower(name), PREFIXES[i] \o <<" ">>)
    /\ \A i \in 1..Len(SUFFIXES) : ~EndsWith(Lower(name), <<" ">> \o SUFFIXES[i])

\* C22: for a name from which no prefix and no suffix is stripped,
\* extract_base_pokemon returns the name as it was given.
C22_UnchangedWhenNothingStrips ==
    (nm_base # None /\ NothingStrips(nm_name)) => nm_base = nm_name

-----------------------------------------------------------------------------
(* Properties of PokeCard._parse_name *)

s_Paldean == <<"P", "a", "l", "d", "e", "a", "n">>

s_ReverseHolo == <<"R", "e", "v", "e", "r", "s", "e", " ", "H", "o", "l", "o">>

Entries(table) == {table[i] : i \in 1..Len(table)}

\* the name the rule tables are applied to
Unescaped(name) == Strip(HtmlUnescape(name))

\* C7: the rule tables are tried in table order and the first matching entry
\* wins: the recorded rarity is the first prefix-rarity that matches, else the
\* first suffix-rarity that matches, and the recorded prefix is the first
\* form-prefix that matches; "Paldean Wooper Reverse Holo" gives prefix
\* "Paldean", base name "Wooper" and rarity "Reverse Holo" (not "Holo").
C7_FirstMatchWins ==
    card_built =>
        LET u == Unescaped(full_name)
            noPrefixRarity == \A k \in 1..Len(PREFIX_RARITIES) :
                                ~MatchesLeading(u, PREFIX_RARITIES[k])
            stripped == remove_set_suffixes(find_and_remove_rarity(u)[1])
        IN  /\ \A i \in 1..Len(PREFIX_RARITIES) :
                    (MatchesLeading(u, PREFIX_RARITIES[i])
                        /\ \A j \in 1..(i - 1) : ~MatchesLeading(u, PREFIX_RARITIES[j]))
                    => rarity = PREFIX_RARITIES[i]
            /\ \A i \in 1..Len(SUFFIX_RARITIES) :
                    (noPrefixRarity /\ MatchesTrailing(u, SUFFIX_RARITIES[i])
                        /\ \A j \in 1..(i - 1) : ~MatchesTrailing(u, SUFFIX_RARITIES[j]))
                    => rarity = SUFFIX_RARITIES[i]
            /\ \A i \in 1..Len(FORM_PREFIXES) :
                    (MatchesLeading(stripped, FORM_PREFIXES[i])
                        /\ \A j \in 1..(i - 1) : ~MatchesLeading(stripped, FORM_PREFIXES[j]))
                    => prefix = FORM_PREFIXES[i]
            /\ full_name = s_PaldeanWooperReverseHolo =>
                    /\ prefix = s_Paldean
                    /\ pokemon_name = s_Wooper
                    /\ rarity = s_ReverseHolo

C7_Witness ==
    /\ card_built
    /\ full_name = s_PaldeanWooperReverseHolo
    /\ rarity = s_ReverseHolo
    /\ MatchesTrailing(full_name, SUFFIX_RARITIES[9])

\* C8: _parse_name returns a triple for every input string: the base name is
\* a string made of characters of the unescaped input, the prefix is None or
\* a form-prefix entry, the rarity is None or a rarity entry, and the empty
\* and whitespace-only inputs give (None, "", None).
C8_ParseNameTotal ==
    card_built =>
        /\ pokemon_name # None
        /\ \A i \in 1..Len(pokemon_name) :
                \E k \in 1..Len(HtmlUnescape(full_name)) :
                    HtmlUnescape(full_name)[k] = pokemon_name[i]
        /\ prefix \in {None} \cup Entries(FORM_PREFIXES)
        /\ rarity \in {None} \cup Entries(PREFIX_RARITIES) \cup Entries(SUFFIX_RARITIES)
        /\ Strip(full_name) = EmptyStr =>
                /\ prefix = None
                /\ pokemon_name = EmptyStr
                /\ rarity = None

\* a whitespace-only name was parsed
C8_Witness ==
    /\ card_built
    /\ full_name # EmptyStr
    /\ Strip(full_name) = EmptyStr
    /\ pokemon_name = EmptyStr

-----------------------------------------------------------------------------
(* Properties of the join *)

\* the tier of a title in the result r
TierIn(r, title) == sort_key(title, EntityKeys(r.pokemon))

JoinedTwice == run = 2 /\ pc = "done"

\* C1: two runs over the same titles, wiki_info, text index and entity groups
\* give every entity the same best_wiki_page and the same wiki_pages order.
C1_RunsAgree ==
    JoinedTwice =>
        \A i \in 1..Len(results) :
            /\ results[i].best_wiki_page = first_results[i].best_wiki_page
            /\ results[i].wiki_pages = first_results[i].wiki_pages

\* C2: every wiki_pages list is sorted by (tier, title): of two candidates
\* the one with the smaller tier comes first, and of two candidates of the
\* same tier the one with the smaller title comes first.
C2_SortedByTierThenTitle ==
    \A n \in 1..Len(results) :
        LET r == results[n]
        IN  \A i, j \in 1..Len(r.wiki_pages) :
                i < j =>
                    \/ TierIn(r, r.wiki_pages[i]) < TierIn(r, r.wiki_pages[j])
                    \/ /\ TierIn(r, r.wiki_pages[i]) = TierIn(r, r.wiki_pages[j])
                       /\ StrLess(r.wiki_pages[i], r.wiki_pages[j])

\* C3: in every wiki_pages list a candidate of a smaller tier stands before
\* every candidate of a larger tier.
C3_SmallerTierFirst ==
    \A n \in 1..Len(results) :
        LET r == results[n]
        IN  \A i, j \in 1..Len(r.wiki_pages) :
                TierIn(r, r.wiki_pages[i]) < TierIn(r, r.wiki_pages[j]) => i < j

\* a result lists candidates of three different tiers
C3_Witness ==
    \E n \in 1..Len(results) :
        LET r == results[n]
        IN  /\ Len(r.wiki_pages) = 3
            /\ TierIn(r, r.wiki_pages[1]) < TierIn(r, r.wiki_pages[2])
            /\ TierIn(r, r.wiki_pages[2]) < TierIn(r, r.wiki_pages[3])

\* C4: best_wiki_page is the first title of wiki_pages whose wiki_info entry
\* has has_pokemon_info true, it is None when no candidate has such an entry
\* (a candidate without an entry does not qualify), and the wiki_info of the
\* result is None exactly when best_wiki_page is None.
C4_BestIsFirstQualifying ==
    \A n \in 1..Len(results) :
        LET r == results[n]
            Good(t) == t \in DOMAIN wiki_info /\ wiki_info[t].has_pokemon_info
        IN  /\ r.best_wiki_page = None =>
                    \A i \in 1..Len(r.wiki_pages) : ~Good(r.wiki_pages[i])
            /\ r.best_wiki_page # None =>
                    \E i \in 1..Len(r.wiki_pages) :
                        /\ r.wiki_pages[i] = r.best_wiki_page
                        /\ Good(r.wiki_pages[i])
                        /\ \A j \in 1..(i - 1) : ~Good(r.wiki_pages[j])
            /\ (r.wiki_info = None) <=> (r.best_wiki_page = None)

\* the first candidate has no wiki_info entry, the second has an entry
\* without pokemon info and the third is chosen
C4_Witness ==
    \E n \in 1..Len(results) :
        LET r == results[n]
        IN  /\ Len(r.wiki_pages) = 3
            /\ r.wiki_pages[1] \notin DOMAIN wiki_info
            /\ r.wiki_pages[2] \in DOMAIN wiki_info
            /\ r.best_wiki_page = r.wiki_pages[3]
            /\ r.wiki_info # None

-----------------------------------------------------------------------------
(* WikiInfoExtractor (wiki_parser/core/wiki_info_extractor.py)

   A page text is a sequence of markup fragments separated by blank lines.
   A fragment is a record: markup is its text; an "infobox" fragment is a
   line "| field = raw"; a "text" fragment is prose in which the regular
   expression named by field matches with raw as its group 1 ("prose" names
   no expression).  The regular expressions are searched in the whole text,
   so a search is the first fragment, in text order, in which it matches. *)

POKEMON_TYPES == {
    <<"n", "o", "r", "m", "a", "l">>,
    <<"f", "i", "r", "e">>,
    <<"w", "a", "t", "e", "r">>,
    <<"e", "l", "e", "c", "t", "r", "i", "c">>,
    <<"g", "r", "a", "s", "s">>,
    <<"i", "c", "e">>,
    <<"f", "i", "g", "h", "t", "i", "n", "g">>,
    <<"p", "o", "i", "s", "o", "n">>,
    <<"g", "r", "o", "u", "n", "d">>,
    <<"f", "l", "y", "i", "n", "g">>,
    <<"p", "s", "y", "c", "h", "i", "c">>,
    <<"b", "u", "g">>,
    <<"r", "o", "c", "k">>,
    <<"g", "h", "o", "s", "t">>,
    <<"d", "r", "a", "g", "o", "n">>,
    <<"d", "a", "r", "k">>,
    <<"s", "t", "e", "e", "l">>,
    <<"f", "a", "i", "r", "y">>
}

\* the appearance_keywords of extract_design_description
appearance_keywords == {
    <<"t", "a", "l", "l">>,
    <<"b", "i", "p", "e", "d", "a", "l">>,
    <<"q", "u", "a", "d", "r", "u", "p", "e", "d", "a", "l">>,
    <<"y", "e", "l", "l", "o", "w", " ", "f", "u", "r">>,
    <<"r", "e", "d", " ", "c", "h", "e", "e", "k">>,
    <<"p", "o", "i", "n", "t", "e", "d", " ", "e", "a", "r", "s">>,
    <<"l", "i", "g", "h", "t", "n", "i", "n", "g", " ", "b", "o", "l", "t">>,
    <<"t", "a", "i", "l", " ", "s", "h", "a", "p", "e", "d">>,
    <<"l", "o", "n", "g", " ", "e", "a", "r", "s">>,
    <<"s", "h", "o", "r", "t", " ", "a", "r", "m", "s">>,
    <<"r", "o", "d", "e", "n", "t">>,
    <<"m", "o", "u", "s", "e", "-", "l", "i", "k", "e">>
}

\* values an ability field may hold that are no ability
NoAbility == {<<"n", "o", "n", "e">>, <<"n", "/", "a">>, <<>>}

\* len(result) < 100 in extract_first_game and extract_created_by
ShortValueMaxLen == 100

\* 20 < len(result) < 500 in extract_design_description
DesignMinLen == 20

DesignMaxLen == 500

\* len(para) > 50 and para[:500] in extract_description
DescriptionMinLen == 50

DescriptionMaxLen == 500

\* a Python value is truthy: neither None nor the empty string
Truthy(v) == v # None /\ v # EmptyStr

\* a or b
Or(a, b) == IF Truthy(a) THEN a ELSE b

\* str.capitalize()
Capitalize(s) == IF s = EmptyStr THEN s ELSE <<UpperChar(s[1])>> \o Lower(Tail(s))

\* index of the first c in s at or after position i, 0 when there is none
IndexFrom(s, c, i) ==
    IF \A j \in i..Len(s) : s[j] # c THEN 0
    ELSE CHOOSE j \in i..Len(s) : s[j] = c /\ \A k \in i..(j - 1) : s[k] # c

\* re.sub(r'<[^>]+/?>', '', s)
RECURSIVE RemoveTags(_)
RemoveTags(s) ==
    LET IsTagAt(p) == /\ s[p] = "<"
                      /\ p + 2 <= Len(s)
                      /\ s[p + 1] # ">"
                      /\ IndexFrom(s, ">", p + 2) # 0
    IN  IF \A p \in 1..Len(s) : ~IsTagAt(p) THEN s
        ELSE LET p == CHOOSE q \in 1..Len(s) :
                        IsTagAt(q) /\ \A r \in 1..(q - 1) : ~IsTagAt(r)
             IN  SubSeq(s, 1, p - 1)
                     \o RemoveTags(SubSeq(s, IndexFrom(s, ">", p + 2) + 1, Len(s)))

\* the text kept of a link [[inner]]: what follows the first "|" when
\* something follows it, the whole of inner otherwise
LinkDisplay(inner) ==
    LET bar == IndexFrom(inner, "|", 1)
    IN  IF bar # 0 /\ bar < Len(inner)
        THEN SubSeq(inner, bar + 1, Len(inner))
        ELSE inner

\* re.sub(r'\[\[(?:[^\]|]*\|)?([^\]]+)\]\]', r'\1', s)
RECURSIVE RemoveLinks(_)
RemoveLinks(s) ==
    LET Close(p) == IndexFrom(s, "]", p + 2)
        IsLinkAt(p) == /\ p + 4 <= Len(s)
                       /\ s[p] = "[" /\ s[p + 1] = "["
                       /\ Close(p) > p + 2
                       /\ Close(p) < Len(s)
                       /\ s[Close(p) + 1] = "]"
    IN  IF \A p \in 1..Len(s) : ~IsLinkAt(p) THEN s
        ELSE LET p == CHOOSE q \in 1..Len(s) :
                        IsLinkAt(q) /\ \A r \in 1..(q - 1) : ~IsLinkAt(r)
             IN  SubSeq(s, 1, p - 1)
                     \o LinkDisplay(SubSeq(s, p + 2, Close(p) - 1))
                     \o RemoveLinks(SubSeq(s, Close(p) + 2, Len(s)))

\* re.sub(r'\[\[|\]\]', '', s) followed by re.sub(r'\[|\]', '', s)
RemoveBrackets(s) ==
    LET Kept(c) == c \notin {"[", "]"}
    IN  SelectSeq(s, Kept)

\* ' '.join(s.split()) of a stripped s
JoinWords(s) ==
    LET Kept(i) == s[i] \notin WhitespaceChars \/ s[i + 1] \notin WhitespaceChars
        kept == SelectSeq([i \in 1..Len(s) |-> i], Kept)
    IN  [k \in 1..Len(kept) |->
            IF s[kept[k]] \in WhitespaceChars THEN " " ELSE s[kept[k]]]

\* range(5) of the template loop
TemplatePasses == 5

\* re.sub(r'\{\{[^{}]*\}\}', '', s): the leftmost "{{" whose next brace is
\* the first of a "}}" goes with all up to that "}}", then the scan goes on
RECURSIVE StripTemplatesOnce(_)
StripTemplatesOnce(s) ==
    LET IsBrace(i) == s[i] \in {"{", "}"}
        NextBrace(p) == IF \A i \in (p + 2)..Len(s) : ~IsBrace(i) THEN 0
                        ELSE CHOOSE i \in (p + 2)..Len(s) :
                                IsBrace(i) /\ \A j \in (p + 2)..(i - 1) : ~IsBrace(j)
        IsTemplateAt(p) == /\ p + 3 <= Len(s)
                           /\ s[p] = "{" /\ s[p + 1] = "{"
                           /\ NextBrace(p) # 0
                           /\ NextBrace(p) < Len(s)
                           /\ s[NextBrace(p)] = "}"
                           /\ s[NextBrace(p) + 1] = "}"
    IN  IF \A p \in 1..Len(s) : ~IsTemplateAt(p) THEN s
        ELSE LET p == CHOOSE q \in 1..Len(s) :
                        IsTemplateAt(q) /\ \A r \in 1..(q - 1) : ~IsTemplateAt(r)
             IN  SubSeq(s, 1, p - 1)
                     \o StripTemplatesOnce(SubSeq(s, NextBrace(p) + 2, Len(s)))

\* re.sub of a doubled character of cs by '': within a run of one such
\* character the pairs are taken left to right, so the last character of a
\* run of odd length stays
RemovePairs(s, cs) ==
    LET SameFrom(j, i) == \A k \in j..i : s[k] = s[i]
        RunStart(i) == CHOOSE j \in 1..i : SameFrom(j, i) /\ (j = 1 \/ s[j - 1] # s[i])
        LastOfRun(i) == i = Len(s) \/ s[i + 1] # s[i]
        Kept(i) == \/ s[i] \notin cs
                   \/ LastOfRun(i) /\ (i - RunStart(i)) % 2 = 0
        kept == SelectSeq([i \in 1..Len(s) |-> i], Kept)
    IN  [k \in 1..Len(kept) |-> s[kept[k]]]

\* the steps after the template loop: "[[" and "]]" go, then "{{" and "}}",
\* then every "[" and "]", then the whitespace is collapsed
CleanAfterTemplates(s) ==
    JoinWords(Strip(RemoveBrackets(RemovePairs(RemovePairs(s, {"[", "]"}), {"{", "}"}))))

\* the template loop: up to n passes, left as soon as no "{{" is in the text
RECURSIVE TemplateLoop(_, _)
TemplateLoop(s, n) ==
    IF n = 0 \/ ~Contains(s, <<"{", "{">>) THEN s
    ELSE TemplateLoop(StripTemplatesOnce(s), n - 1)

\* _clean_wiki_markup(s) for markup without HTML entities, ref tags and
\* quote runs: tags, links and templates go, then the remaining brackets and
\* braces, and the whitespace is collapsed
clean_wiki_markup(s) ==
    IF s = EmptyStr THEN EmptyStr
    ELSE CleanAfterTemplates(TemplateLoop(RemoveLinks(RemoveTags(s)), TemplatePasses))

\* group 1 of the first pattern of extract_infobox_field, ([^\|\n\}]+),
\* on the rest of the line: the characters before the first "|" or "}"
ValueCapture(raw) ==
    LET Stops(i) == raw[i] \in {"|", "\n", "}"}
    IN  IF \A i \in 1..Len(raw) : ~Stops(i) THEN raw
        ELSE SubSeq(raw, 1, (CHOOSE i \in 1..Len(raw) :
                                Stops(i) /\ \A j \in 1..(i - 1) : ~Stops(j)) - 1)

\* the second pattern of extract_infobox_field, \[\[([^\]]+)\]\], matches
IsLinkValue(raw) ==
    /\ Len(raw) >= 5
    /\ raw[1] = "[" /\ raw[2] = "["
    /\ IndexFrom(raw, "]", 3) > 3
    /\ IndexFrom(raw, "]", 3) < Len(raw)
    /\ raw[IndexFrom(raw, "]", 3) + 1] = "]"

\* group 1 of the second pattern
LinkCapture(raw) == SubSeq(raw, 3, IndexFrom(raw, "]", 3) - 1)

\* the fragments of text in which "| field_name = " is followed by a value
ValueHits(text, field_name) ==
    LET Hit(f) == /\ f.kind = "infobox"
                  /\ f.field = field_name
                  /\ ValueCapture(f.raw) # EmptyStr
    IN  SelectSeq(text, Hit)

\* the fragments of text in which "| field_name = " is followed by a link
LinkHits(text, field_name) ==
    LET Hit(f) == /\ f.kind = "infobox"
                  /\ f.field = field_name
                  /\ IsLinkValue(f.raw)
    IN  SelectSeq(text, Hit)

\* the fragments of text in which the expression named pattern matches
TextHits(text, pattern) ==
    LET Hit(f) == f.kind = "text" /\ f.field = pattern
    IN  SelectSeq(text, Hit)

\* the two patterns in turn: the cleaned group of the first match of a
\* pattern is returned when it is not empty
extract_infobox_field(text, field_name) ==
    LET values == ValueHits(text, field_name)
        linked == LinkHits(text, field_name)
        value == clean_wiki_markup(Strip(ValueCapture(Head(values).raw)))
        link == clean_wiki_markup(Strip(LinkCapture(Head(linked).raw)))
    IN  IF Len(values) > 0 /\ value # EmptyStr THEN value
        ELSE IF Len(linked) > 0 /\ link # EmptyStr THEN link
        ELSE None

\* for field in fields: the first value that is truthy, None without one
RECURSIVE FirstField(_, _)
FirstField(text, fields) ==
    IF fields = << >> THEN None
    ELSE Or(extract_infobox_field(text, Head(fields)), FirstField(text, Tail(fields)))

\* for pattern in patterns: the cleaned group of the first match of the
\* first pattern for which it is longer than lo and shorter than hi
RECURSIVE FirstPattern(_, _, _, _)
FirstPattern(text, patterns, lo, hi) ==
    IF patterns = << >> THEN None
    ELSE LET hits == TextHits(text, Head(patterns))
             result == clean_wiki_markup(Head(hits).raw)
         IN  IF Len(hits) > 0 /\ Len(result) > lo /\ Len(result) < hi
             THEN result
             ELSE FirstPattern(text, Tail(patterns), lo, hi)

\* list(dict.fromkeys(values))
RECURSIVE Dedup(_)
Dedup(values) ==
    IF values = << >> THEN << >>
    ELSE LET Other(v) == v # Head(values)
         IN  <<Head(values)>> \o Dedup(SelectSeq(Tail(values), Other))

\* the capitalized values of a list that are pokemon types
RECURSIVE ValidTypes(_)
ValidTypes(values) ==
    IF values = << >> THEN << >>
    ELSE (IF Lower(Head(values)) \in POKEMON_TYPES
          THEN <<Capitalize(Head(values))>> ELSE << >>) \o ValidTypes(Tail(values))

\* the list [v] of a truthy value, the empty list otherwise
ListOfTruthy(v) == IF Truthy(v) THEN <<v>> ELSE << >>

\* the truthy values of the infobox fields, in the order of fields
RECURSIVE FieldValues(_, _)
FieldValues(text, fields) ==
    IF fields = << >> THEN << >>
    ELSE ListOfTruthy(extract_infobox_field(text, Head(fields)))
            \o FieldValues(text, Tail(fields))

\* the group 1 of every match of an expression, in text order
Groups(hits) == [i \in 1..Len(hits) |-> hits[i].raw]

\* the list is returned as it was collected
extract_pokemon_type_with_duplicates(text) ==
    LET types == ValidTypes(FieldValues(text, <<"type", "type1", "type2">>))
    IN  IF Len(types) > 0
        THEN types
        ELSE ValidTypes(Groups(TextHits(text, "type_text")))

extract_pokemon_type(text) ==
    LET types == ValidTypes(FieldValues(text, <<"type", "type1", "type2">>))
    IN  IF Len(types) > 0
        THEN Dedup(types)
        ELSE Dedup(ValidTypes(Groups(TextHits(text, "type_text"))))

extract_species(text) ==
    LET species == extract_infobox_field(text, "species")
        hits == TextHits(text, "species_text")
    IN  IF Truthy(species) THEN species
        ELSE IF Len(hits) > 0 THEN Head(hits).raw \o <<" ", "P", "o", "k", "é", "m", "o", "n">>
        ELSE None

extract_generation(text) ==
    LET gen == extract_infobox_field(text, "generation")
        hits == TextHits(text, "generation_text")
    IN  IF Truthy(gen) THEN gen
        ELSE IF Len(hits) > 0 THEN Head(hits).raw
        ELSE None

extract_abilities(text) ==
    LET IsAbility(a) == Lower(a) \notin NoAbility
    IN  Dedup(SelectSeq(FieldValues(text,
            <<"ability", "ability1", "ability2", "abilityd", "hidden_ability">>),
            IsAbility))

\* s.split('|')[-1]
AfterLastBar(s) ==
    IF \A i \in 1..Len(s) : s[i] # "|" THEN s
    ELSE SubSeq(s, 1 + (CHOOSE i \in 1..Len(s) :
                            s[i] = "|" /\ \A j \in (i + 1)..Len(s) : s[j] # "|"),
                Len(s))

\* one entry of extract_evolution: the infobox field, else the linked name
\* after "evolves from" / "evolves into"
Evolution(text, field_name, pattern) ==
    LET value == extract_infobox_field(text, field_name)
        hits == TextHits(text, pattern)
    IN  IF Truthy(value) THEN value
        ELSE IF Len(hits) > 0 THEN AfterLastBar(Head(hits).raw)
        ELSE value

extract_evolution(text) ==
    [evolves_from |-> Evolution(text, "evolvesfrom", "evolves_from_text"),
     evolves_to   |-> Evolution(text, "evolvesto", "evolves_into_text")]

extract_physical_stats(text) ==
    [height |-> Or(extract_infobox_field(text, "height"),
                   extract_infobox_field(text, "metricheight")),
     weight |-> Or(extract_infobox_field(text, "weight"),
                   extract_infobox_field(text, "metricweight"))]

extract_japanese_name(text) ==
    LET jname == extract_infobox_field(text, "jname")
        hits == TextHits(text, "japanese_text")
    IN  IF Truthy(jname) THEN jname
        ELSE IF Len(hits) > 0 THEN Strip(Head(hits).raw)
        ELSE None

extract_pokedex_number(text) ==
    LET ndex == FirstField(text, <<"ndex", "number">>)
        hits == TextHits(text, "dex_text")
    IN  IF Truthy(ndex) THEN ndex
        ELSE IF Len(hits) > 0 THEN Head(hits).raw
        ELSE None

extract_first_game(text) ==
    LET game == FirstField(text, <<"first_game", "firstgame", "first game", "debut">>)
    IN  IF Truthy(game) THEN game
        ELSE FirstPattern(text,
                <<"first_appeared", "introduced_in", "debuted_in", "game_pair">>,
                0, ShortValueMaxLen)

extract_created_by(text) ==
    LET creator == FirstField(text,
                <<"creator", "created_by", "designer", "designed_by", "artist">>)
    IN  IF Truthy(creator) THEN creator
        ELSE FirstPattern(text,
                <<"created_by_link", "created_by_name", "creator_is", "designed_by">>,
                0, ShortValueMaxLen)

\* "\n\n".join of the markup of the fragments: the text as one string
RECURSIVE JoinedText(_)
JoinedText(text) ==
    IF text = << >> THEN EmptyStr
    ELSE IF Len(text) = 1 THEN Head(text).markup
    ELSE Head(text).markup \o <<"\n", "\n">> \o JoinedText(Tail(text))

\* re.split(r'(?<=[.!?])\s+', s)
RECURSIVE Sentences(_)
Sentences(s) ==
    LET IsCut(i) == s[i] \in WhitespaceChars /\ s[i - 1] \in {".", "!", "?"}
    IN  IF \A i \in 2..Len(s) : ~IsCut(i) THEN <<s>>
        ELSE LET cut == CHOOSE i \in 2..Len(s) :
                            IsCut(i) /\ \A j \in 2..(i - 1) : ~IsCut(j)
                 rest == SubSeq(s, cut, Len(s))
             IN  <<SubSeq(s, 1, cut - 1)>>
                     \o Sentences(SubSeq(rest, LeadingSpaces(rest) + 1, Len(rest)))

\* the loop over the sentences: the first cleaned sentence with an appearance
\* keyword and a length between the limits, None without one
RECURSIVE KeywordSentence(_)
KeywordSentence(sentences) ==
    IF sentences = << >> THEN None
    ELSE LET sentence_lower == Lower(Head(sentences))
             result == clean_wiki_markup(Head(sentences))
         IN  IF /\ \E keyword \in appearance_keywords : Contains(sentence_lower, keyword)
                /\ Len(result) > DesignMinLen
                /\ Len(result) < DesignMaxLen
             THEN result
             ELSE KeywordSentence(Tail(sentences))

extract_design_description(text) ==
    LET result == FirstPattern(text,
                    <<"standing", "animal", "height_appearance", "has_colour", "design_based">>,
                    DesignMinLen, DesignMaxLen)
    IN  IF result # None THEN result
        ELSE KeywordSentence(Sentences(JoinedText(text)))

\* the loop over text.split('\n\n') of a text without templates
RECURSIVE FirstParagraph(_)
FirstParagraph(text) ==
    IF text = << >> THEN None
    ELSE LET para == clean_wiki_markup(Head(text).markup)
         IN  IF /\ Len(para) > DescriptionMinLen
                /\ ~StartsWith(para, <<"{", "{">>)
                /\ ~StartsWith(para, <<"|">>)
             THEN IF Len(para) > DescriptionMaxLen
                  THEN SubSeq(para, 1, DescriptionMaxLen) \o <<".", ".", ".">>
                  ELSE para
             ELSE FirstParagraph(Tail(text))

extract_description(text) == FirstParagraph(text)

\* design_description is left out of the test
has_pokemon_info_without_design(types, species, generation, abilities, pokedex_number, first_game, design_description) ==
    \/ Len(types) > 0
    \/ Truthy(species)
    \/ Truthy(generation)
    \/ Len(abilities) > 0
    \/ Truthy(pokedex_number)
    \/ Truthy(first_game)

\* bool(types or species or generation or abilities or pokedex_number or
\*      first_game or design_description); types and abilities are lists
has_pokemon_info(types, species, generation, abilities, pokedex_number, first_game, design_description) ==
    \/ Len(types) > 0
    \/ Truthy(species)
    \/ Truthy(generation)
    \/ Len(abilities) > 0
    \/ Truthy(pokedex_number)
    \/ Truthy(first_game)
    \/ Truthy(design_description)

\* the dict extract_all_info returns for a text that is not empty, from the
\* values of its local variables; the value None of 'types' and of
\* 'abilities' is the empty sequence
InfoDict(title, types, species, generation, abilities, evolution, physical, japanese_name, pokedex_number, first_game, created_by, design_description, description) ==
    [title              |-> title,
     has_pokemon_info   |-> has_pokemon_info(types, species, generation, abilities,
                                pokedex_number, first_game, design_description),
     types              |-> types,
     species            |-> species,
     generation         |-> generation,
     abilities          |-> abilities,
     evolves_from       |-> evolution.evolves_from,
     evolves_to         |-> evolution.evolves_to,
     height             |-> physical.height,
     weight             |-> physical.weight,
     japanese_name      |-> japanese_name,
     pokedex_number     |-> pokedex_number,
     first_game         |-> first_game,
     created_by         |-> created_by,
     design_description |-> design_description,
     description        |-> description]

extract_all_info(title, text) ==
    IF text = << >>
    THEN [title |-> title, has_pokemon_info |-> FALSE]
    ELSE InfoDict(title,
                  extract_pokemon_type(text),
                  extract_species(text),
                  extract_generation(text),
                  extract_abilities(text),
                  extract_evolution(text),
                  extract_physical_stats(text),
                  extract_japanese_name(text),
                  extract_pokedex_number(text),
                  extract_first_game(text),
                  extract_created_by(text),
                  extract_design_description(text),
                  extract_description(text))

-----------------------------------------------------------------------------
(* The page texts given to extract_all_info *)

\* the markup fragments the texts are made of
Fragments == {
    [markup |-> <<"|", " ", "t", "y", "p", "e", "1", " ", "=", " ", "E", "l", "e", "c", "t", "r", "i", "c">>,
     kind |-> "infobox", field |-> "type1",
     raw |-> <<"E", "l", "e", "c", "t", "r", "i", "c">>],
    [markup |-> <<"|", " ", "t", "y", "p", "e", "2", " ", "=", " ", "f", "i", "r", "e">>,
     kind |-> "infobox", field |-> "type2",
     raw |-> <<"f", "i", "r", "e">>],
    [markup |-> <<"|", " ", "t", "y", "p", "e", " ", "=", " ", "B", "a", "n", "a", "n", "a">>,
     kind |-> "infobox", field |-> "type",
     raw |-> <<"B", "a", "n", "a", "n", "a">>],
    [markup |-> <<"|", " ", "t", "y", "p", "e", " ", "=", " ", "F", "i", "r", "e">>,
     kind |-> "infobox", field |-> "type",
     raw |-> <<"F", "i", "r", "e">>],
    [markup |-> <<"|", " ", "t", "y", "p", "e", " ", "=", " ", "<", "b", "r", "/", ">">>,
     kind |-> "infobox", field |-> "type",
     raw |-> <<"<", "b", "r", "/", ">">>],
    [markup |-> <<"|", " ", "t", "y", "p", "e", " ", "=", " ", "[", "[", "W", "a", "t", "e", "r", "]", "]">>,
     kind |-> "infobox", field |-> "type",
     raw |-> <<"[", "[", "W", "a", "t", "e", "r", "]", "]">>],
    [markup |-> <<"|", " ", "s", "p", "e", "c", "i", "e", "s", " ", "=", " ", "S", "e", "e", "d">>,
     kind |-> "infobox", field |-> "species",
     raw |-> <<"S", "e", "e", "d">>],
    [markup |-> <<"|", " ", "g", "e", "n", "e", "r", "a", "t", "i", "o", "n", " ", "=", " ", "I">>,
     kind |-> "infobox", field |-> "generation",
     raw |-> <<"I">>],
    [markup |-> <<"|", " ", "a", "b", "i", "l", "i", "t", "y", " ", "=", " ", "S", "t", "a", "t", "i", "c">>,
     kind |-> "infobox", field |-> "ability",
     raw |-> <<"S", "t", "a", "t", "i", "c">>],
    [markup |-> <<"|", " ", "a", "b", "i", "l", "i", "t", "y", "2", " ", "=", " ", "N", "o", "n", "e">>,
     kind |-> "infobox", field |-> "ability2",
     raw |-> <<"N", "o", "n", "e">>],
    [markup |-> <<"|", " ", "n", "d", "e", "x", " ", "=", " ", "0", "2", "5">>,
     kind |-> "infobox", field |-> "ndex",
     raw |-> <<"0", "2", "5">>],
    [markup |-> <<"|", " ", "d", "e", "b", "u", "t", " ", "=", " ", "R", "e", "d">>,
     kind |-> "infobox", field |-> "debut",
     raw |-> <<"R", "e", "d">>],
    [markup |-> <<"|", " ", "e", "v", "o", "l", "v", "e", "s", "f", "r", "o", "m", " ", "=", " ", "[", "[", "P", "o", "l", "i", "w", "a", "g", " ", "(", "P", "o", "k", "é", "m", "o", "n", ")", "|", "P", "o", "l", "i", "w", "a", "g", "]", "]">>,
     kind |-> "infobox", field |-> "evolvesfrom",
     raw |-> <<"[", "[", "P", "o", "l", "i", "w", "a", "g", " ", "(", "P", "o", "k", "é", "m", "o", "n", ")", "|", "P", "o", "l", "i", "w", "a", "g", "]", "]">>],
    [markup |-> <<"|", " ", "h", "e", "i", "g", "h", "t", " ", "=", " ", "0", ".", "4">>,
     kind |-> "infobox", field |-> "height",
     raw |-> <<"0", ".", "4">>],
    [markup |-> <<"|", " ", "m", "e", "t", "r", "i", "c", "w", "e", "i", "g", "h", "t", " ", "=", " ", "6", ".", "0">>,
     kind |-> "infobox", field |-> "metricweight",
     raw |-> <<"6", ".", "0">>],
    [markup |-> <<"|", " ", "j", "n", "a", "m", "e", " ", "=", " ", "P", "i", "k", "a", "c", "h", "u", "u">>,
     kind |-> "infobox", field |-> "jname",
     raw |-> <<"P", "i", "k", "a", "c", "h", "u", "u">>],
    [markup |-> <<"|", " ", "c", "r", "e", "a", "t", "o", "r", " ", "=", " ", "K", "e", "n">>,
     kind |-> "infobox", field |-> "creator",
     raw |-> <<"K", "e", "n">>],
    [markup |-> <<"I", "t", " ", "i", "s", " ", "a", " ", "F", "I", "R", "E", "-", "t", "y", "p", "e", " ", "P", "o", "k", "é", "m", "o", "n">>,
     kind |-> "text", field |-> "type_text",
     raw |-> <<"F", "I", "R", "E">>],
    [markup |-> <<"I", "t", " ", "i", "s", " ", "a", " ", "S", "h", "a", "d", "o", "w", "-", "t", "y", "p", "e", " ", "P", "o", "k", "é", "m", "o", "n">>,
     kind |-> "text", field |-> "type_text",
     raw |-> <<"S", "h", "a", "d", "o", "w">>],
    [markup |-> <<"k", "n", "o", "w", "n", " ", "a", "s", " ", "t", "h", "e", " ", "F", "l", "a", "m", "e", " ", "P", "o", "k", "é", "m", "o", "n">>,
     kind |-> "text", field |-> "species_text",
     raw |-> <<"F", "l", "a", "m", "e">>],
    [markup |-> <<"s", "i", "n", "c", "e", " ", "G", "e", "n", "e", "r", "a", "t", "i", "o", "n", " ", "I", "V">>,
     kind |-> "text", field |-> "generation_text",
     raw |-> <<"I", "V">>],
    [markup |-> <<"n", "u", "m", "b", "e", "r", "e", "d", " ", "#", "0", "0", "2", "5">>,
     kind |-> "text", field |-> "dex_text",
     raw |-> <<"0", "0", "2", "5">>],
    [markup |-> <<"f", "i", "r", "s", "t", " ", "a", "p", "p", "e", "a", "r", "e", "d", " ", "i", "n", " ", "P", "o", "k", "é", "m", "o", "n", " ", "R", "e", "d", " ", "a", "n", "d", " ", "B", "l", "u", "e", ".">>,
     kind |-> "text", field |-> "first_appeared",
     raw |-> <<"P", "o", "k", "é", "m", "o", "n", " ", "R", "e", "d", " ", "a", "n", "d", " ", "B", "l", "u", "e">>],
    [markup |-> <<"d", "e", "b", "u", "t", "e", "d", " ", "i", "n", " ", "P", "o", "k", "é", "m", "o", "n", " ", "G", "o", "l", "d", ".">>,
     kind |-> "text", field |-> "debuted_in",
     raw |-> <<"G", "o", "l", "d">>],
    [markup |-> <<"I", "t", " ", "w", "a", "s", " ", "d", "e", "s", "i", "g", "n", "e", "d", " ", "b", "y", " ", "K", "e", "n", " ", "S", "u", "g", "i", "m", "o", "r", "i", ".">>,
     kind |-> "text", field |-> "created_by_name",
     raw |-> <<"K", "e", "n", " ", "S", "u", "g", "i", "m", "o", "r", "i">>],
    [markup |-> <<"(", "J", "a", "p", "a", "n", "e", "s", "e", ":", " ", "P", "i", "k", "a", " ", ")">>,
     kind |-> "text", field |-> "japanese_text",
     raw |-> <<"P", "i", "k", "a", " ">>],
    [markup |-> <<"e", "v", "o", "l", "v", "e", "s", " ", "f", "r", "o", "m", " ", "[", "[", "P", "i", "c", "h", "u", " ", "(", "P", "o", "k", "é", "m", "o", "n", ")", "|", "P", "i", "c", "h", "u", "]", "]">>,
     kind |-> "text", field |-> "evolves_from_text",
     raw |-> <<"P", "i", "c", "h", "u", " ", "(", "P", "o", "k", "é", "m", "o", "n", ")", "|", "P", "i", "c", "h", "u">>],
    [markup |-> <<"e", "v", "o", "l", "v", "e", "s", " ", "i", "n", "t", "o", " ", "[", "[", "R", "a", "i", "c", "h", "u", "]", "]">>,
     kind |-> "text", field |-> "evolves_into_text",
     raw |-> <<"R", "a", "i", "c", "h", "u">>],
    [markup |-> <<"I", "t", " ", "h", "a", "s", " ", "y", "e", "l", "l", "o", "w", " ", "f", "u", "r", " ", "o", "n", " ", "i", "t", "s", " ", "w", "h", "o", "l", "e", " ", "b", "o", "d", "y", ".">>,
     kind |-> "text", field |-> "has_colour",
     raw |-> <<"I", "t", " ", "h", "a", "s", " ", "y", "e", "l", "l", "o", "w", " ", "f", "u", "r", " ", "o", "n", " ", "i", "t", "s", " ", "w", "h", "o", "l", "e", " ", "b", "o", "d", "y", ".">>],
    [markup |-> <<"I", "t", "s", " ", "d", "e", "s", "i", "g", "n", " ", "i", "s", " ", "b", "a", "s", "e", "d", " ", "o", "n", " ", "a", " ", "k", "i", "t", "e", ".">>,
     kind |-> "text", field |-> "design_based",
     raw |-> <<"I", "t", "s", " ", "d", "e", "s", "i", "g", "n", " ", "i", "s", " ", "b", "a", "s", "e", "d", " ", "o", "n", " ", "a", " ", "k", "i", "t", "e", ".">>],
    [markup |-> <<"A", " ", "c", "r", "e", "a", "t", "u", "r", "e", " ", "w", "i", "t", "h", " ", "l", "o", "n", "g", " ", "e", "a", "r", "s", " ", "a", "n", "d", " ", "a", " ", "t", "a", "i", "l", ".">>,
     kind |-> "text", field |-> "prose",
     raw |-> <<>>],
    [markup |-> <<"A", " ", "f", "i", "c", "t", "i", "o", "n", "a", "l", " ", "c", "r", "e", "a", "t", "u", "r", "e", " ", "t", "h", "a", "t", " ", "a", "p", "p", "e", "a", "r", "s", " ", "i", "n", " ", "m", "a", "n", "y", " ", "g", "a", "m", "e", "s", " ", "e", "t", "c">>,
     kind |-> "text", field |-> "prose",
     raw |-> <<>>]
}

\* longest page text, in fragments
MaxFragments == 2

PageTexts == UNION {[1..n -> Fragments] : n \in 0..MaxFragments}

PageTitles == {t_Pikachu, t_ListOfPokemon}

-----------------------------------------------------------------------------
(* extract_all_info as a state machine: a title and a text are drawn and the
   function is applied to them *)

InitExtract ==
    /\ page_title \in PageTitles
    /\ page_text \in PageTexts
    /\ all_info = EmptyDict
    /\ extracted = FALSE
    /\ NoNames
    /\ NoCard
    /\ NoJoin
    /\ NoOutput
    /\ NoLoad
    /\ NoAll
    /\ NoParse
    /\ NoSortKey
    /\ NoClean
    /\ NoDesc
    /\ NoCrawl

ExtractAllInfo ==
    /\ ~extracted
    /\ all_info' = extract_all_info(page_title, page_text)
    /\ extracted' = TRUE
    /\ UNCHANGED <<page_title, page_text>>
    /\ UNCHANGED <<nmVars, cardVars, joinVars, outputVars, loadVars, allVars, parseVars, sortKeyVars, cleanVars, descVars, crawlVars>>

NextExtract == ExtractAllInfo

SpecExtract == InitExtract /\ [][NextExtract]_vars

-----------------------------------------------------------------------------
(* Properties of extract_all_info *)

\* a string field of the returned dict holds a value
NonEmpty(v) == v \notin {None, EmptyStr}

\* C10: for every page text, has_pokemon_info of the dict extract_all_info
\* returns is true if and only if at least one of types, species, generation,
\* abilities, pokedex_number, first_game, design_description is non-empty in
\* it, so that evolves_from, evolves_to, height, weight, japanese_name,
\* created_by and description have no part in the flag; an empty text gives
\* has_pokemon_info = false.
C10_FlagIffSignalField ==
    extracted =>
        IF page_text = << >>
        THEN all_info.has_pokemon_info = FALSE
        ELSE all_info.has_pokemon_info <=>
                \/ Len(all_info.types) > 0
                \/ NonEmpty(all_info.species)
                \/ NonEmpty(all_info.generation)
                \/ Len(all_info.abilities) > 0
                \/ NonEmpty(all_info.pokedex_number)
                \/ NonEmpty(all_info.first_game)
                \/ NonEmpty(all_info.design_description)

\* a text that gives an evolution and a height and none of the seven fields:
\* the flag is false
C10_Witness ==
    /\ extracted
    /\ page_text # << >>
    /\ NonEmpty(all_info.evolves_from)
    /\ NonEmpty(all_info.height)
    /\ all_info.has_pokemon_info = FALSE

\* the name ends with a whitespace character followed by a set-suffix token
EndsWithSetSuffix(name) ==
    \E i \in 1..Len(SET_SUFFIXES) : \E ws \in WhitespaceChars :
        EndsWith(name, <<ws>> \o SET_SUFFIXES[i])

\* C23: the pokemon_name of a constructed card never ends with whitespace
\* followed by a set-suffix token, whatever set-suffix tokens the full name
\* carried and in whatever order.
C23_NoTrailingSetSuffix ==
    card_built => ~EndsWithSetSuffix(pokemon_name)

\* the tokens the type searches of extract_pokemon_type capture in the text
CapturedTypeTokens ==
    {page_text[i].raw : i \in {j \in 1..Len(page_text) :
        \/ page_text[j].kind = "infobox" /\ page_text[j].field \in {"type", "type1", "type2"}
        \/ page_text[j].kind = "text" /\ page_text[j].field = "type_text"}}

\* C26: for every page text, each element of the extracted types list is
\* the capitalized form of one of the eighteen known types, the list has no
\* duplicates, and a captured token that is not one of the eighteen types
\* is not in the list, be it from an infobox field or from the "X-type
\* Pokémon" text
C26_TypesValidAndDistinct ==
    /\ Cardinality(POKEMON_TYPES) = 18
    /\ (extracted /\ page_text # << >>) =>
          LET types == all_info.types
          IN  /\ \A i \in 1..Len(types) : \E t \in POKEMON_TYPES : types[i] = Capitalize(t)
              /\ \A i, j \in 1..Len(types) : types[i] = types[j] => i = j
              /\ \A tok \in CapturedTypeTokens :
                    Lower(tok) \notin POKEMON_TYPES =>
                        \A i \in 1..Len(types) : types[i] # tok /\ types[i] # Capitalize(tok)

\* two infobox fields name the same type, which is stored once
C26_Witness ==
    /\ extracted
    /\ Len(page_text) = 2
    /\ page_text[1].kind = "infobox" /\ page_text[2].kind = "infobox"
    /\ page_text[1].field # page_text[2].field
    /\ Lower(page_text[1].raw) = Lower(page_text[2].raw)
    /\ Len(all_info.types) = 1

\* the text search finds a token that is no type and one that is, twice
C26_WitnessText ==
    /\ extracted
    /\ Len(page_text) = 2
    /\ \E i \in 1..2 : page_text[i].field = "type_text" /\ Lower(page_text[i].raw) \notin POKEMON_TYPES
    /\ \E i \in 1..2 : page_text[i].field = "type_text" /\ Lower(page_text[i].raw) \in POKEMON_TYPES
    /\ Len(all_info.types) = 1

-----------------------------------------------------------------------------
(* Properties of run_join and save_results *)

\* C11: when no card groups or no wiki titles were loaded (an absent titles
\* file loads as the empty list), run_join never gets past the loading: it
\* builds no index, matches no entity and writes none of the three files.
C11_AbortBeforeSave ==
    (pokemon_cards = << >> \/ wiki_titles = << >>) =>
        /\ pc \in {"loaded", "failed"}
        /\ written = {}
        /\ joined_file = << >>
        /\ matched_file = << >>
        /\ results = << >>

\* cards were loaded but no titles, and the run has aborted
C11_Witness ==
    /\ pc = "failed"
    /\ pokemon_cards # << >>
    /\ wiki_titles = << >>
    /\ written = {}

\* C13: the results follow the entity groups one to one: result i is the
\* result of group i with the number of its cards, there is never a result
\* without a group, and when join_pokemon_wiki has returned every group has
\* its result.
C13_OneResultPerGroup ==
    /\ Len(results) <= Len(pokemon_cards)
    /\ \A i \in 1..Len(results) :
            /\ results[i].pokemon = pokemon_cards[i].pokemon
            /\ results[i].card_count = Len(pokemon_cards[i].cards)
    /\ pc \in {"done", "saved"} => Len(results) = Len(pokemon_cards)

\* two groups, of two cards and of one card, have been matched
C13_Witness ==
    /\ pc = "done"
    /\ Len(results) = 2
    /\ results[1].card_count = 2
    /\ results[2].card_count = 1

\* result i is what matching its entity against the indices and wiki_info
\* as they are now gives, for some iteration order of its candidate set
ResultFromIndices(i) ==
    LET entry == pokemon_cards[i]
        k == EntityKeys(entry.pokemon)
    IN  \E order \in IterationOrders(MatchedWikis(entry.pokemon, k, wiki_exact,
                        wiki_normalized, title_word_index, text_index)) :
            results[i] = MatchResult(entry, k, order, wiki_info)

\* C14: from the moment the indices are built, no step changes the exact
\* map, the normalized map, the word index, the text index or wiki_info, and
\* every result is the match of its entity against these structures alone,
\* whatever its position among the entities and whatever was matched before.
C14_IndicesReadOnly ==
    /\ [][pc = "loop" =>
            UNCHANGED <<wiki_exact, wiki_normalized, title_word_index,
                        text_index, wiki_info>>]_vars
    /\ [](pc \in {"loop", "done"} =>
            \A i \in 1..Len(results) : ResultFromIndices(i))

\* two entities have been matched against built title and text indices
C14_Witness ==
    /\ pc = "done"
    /\ Len(results) = 2
    /\ DOMAIN wiki_exact # {}
    /\ DOMAIN title_word_index # {}
    /\ DOMAIN text_index # {}

\* the positions of the results that have at least one wiki page
WithWiki == {i \in 1..Len(results) : Len(results[i].wiki_pages) > 0}

\* the sum of card_count over the results at the positions I
RECURSIVE CardCountOver(_)
CardCountOver(I) ==
    IF I = {} THEN 0
    ELSE LET i == CHOOSE j \in I : TRUE
         IN  results[i].card_count + CardCountOver(I \ {i})

\* C15: once the statistics are computed and saved, total_pokemon is the
\* number of results, pokemon_with_wiki the number of results with a
\* non-empty wiki_pages, with and without add up to total_pokemon,
\* total_cards is the sum of card_count, and the matched-only file holds
\* exactly the results with a non-empty wiki_pages, each once.
C15_StatsConsistent ==
    pc = "saved" =>
        /\ stats.total_pokemon = Len(results)
        /\ stats.pokemon_with_wiki = Cardinality(WithWiki)
        /\ stats.pokemon_with_wiki + stats.pokemon_without_wiki = stats.total_pokemon
        /\ stats.total_cards = CardCountOver(1..Len(results))
        /\ Len(matched_file) = Cardinality(WithWiki)
        /\ {matched_file[i] : i \in 1..Len(matched_file)} = {results[i] : i \in WithWiki}
        /\ stats_file = stats

\* saved statistics of a run with one matched and one unmatched entity
C15_Witness ==
    /\ pc = "saved"
    /\ Len(results) = 2
    /\ Cardinality(WithWiki) = 1
    /\ stats.total_cards = 3

\* the title a map from keys to titles gives for a key, if any
Hit(index, key) == IF key \in DOMAIN index THEN {index[key]} ELSE {}

\* the titles a map from keys to sets of titles gives for a key
HitSet(index, key) == IF key \in DOMAIN index THEN index[key] ELSE {}

\* (a) the exact index on the base name B and on the name N
StrategyExact(N) ==
    Hit(wiki_exact, Lower(extract_base_pokemon(N))) \cup Hit(wiki_exact, Lower(N))

\* (b) the normalized index on normalize(B) and normalize(N)
StrategyNormalized(N) ==
    Hit(wiki_normalized, normalize(extract_base_pokemon(N)))
        \cup Hit(wiki_normalized, normalize(N))

\* (c) the word index on normalize(B) and normalize(N), without the titles
\* that start with "List of" or have WordHitMaxLen characters or more
StrategyWord(N) ==
    {t \in HitSet(title_word_index, normalize(extract_base_pokemon(N)))
            \cup HitSet(title_word_index, normalize(N)) :
        ~StartsWith(t, t_ListOf) /\ Len(t) < WordHitMaxLen}

\* (d) the text-mention index on N; nothing when no text index was built
StrategyText(N) == HitSet(text_index, N)

\* C19: the wiki_pages of every result hold, each once, exactly the titles
\* of the four strategies for its entity; when no text index was built the
\* text strategy gives nothing and every entity still gets its result.
C19_UnionOfStrategies ==
    /\ pc \in {"loop", "done"} =>
            \A i \in 1..Len(results) :
                /\ SeqToSet(results[i].wiki_pages) =
                        StrategyExact(results[i].pokemon)
                            \cup StrategyNormalized(results[i].pokemon)
                            \cup StrategyWord(results[i].pokemon)
                            \cup StrategyText(results[i].pokemon)
                /\ Len(results[i].wiki_pages) =
                        Cardinality(SeqToSet(results[i].wiki_pages))
                /\ DOMAIN text_index = {} => StrategyText(results[i].pokemon) = {}
    /\ (pc = "done" /\ DOMAIN text_index = {}) => Len(results) = Len(pokemon_cards)

\* a result with an exact hit and a title that only the text index gives
C19_Witness ==
    /\ pc = "done"
    /\ \E i \in 1..Len(results) :
            /\ StrategyExact(results[i].pokemon) # {}
            /\ StrategyText(results[i].pokemon)
                    \ (StrategyExact(results[i].pokemon)
                        \cup StrategyNormalized(results[i].pokemon)
                        \cup StrategyWord(results[i].pokemon)) # {}

\* matching is complete although no text index was built
C19_WitnessWithoutText ==
    /\ pc = "done"
    /\ DOMAIN text_index = {}
    /\ Len(results) = 2
    /\ results[1].wiki_pages # << >>

\* the title starts with "List of" or has WordHitMaxLen characters or more
Unlisted(t) == StartsWith(t, t_ListOf) \/ Len(t) >= WordHitMaxLen

\* C20: a title that starts with "List of" or has 50 characters or more is
\* among the wiki_pages of a result only when the exact index, the
\* normalized index or the text index gives it for the entity: the word
\* index never brings it in.
C20_WordIndexFilter ==
    pc \in {"loop", "done"} =>
        \A i \in 1..Len(results) :
            \A t \in SeqToSet(results[i].wiki_pages) :
                Unlisted(t) =>
                    t \in StrategyExact(results[i].pokemon)
                            \cup StrategyNormalized(results[i].pokemon)
                            \cup StrategyText(results[i].pokemon)

\* the word index holds a 50-character title for the word pikachu, no text index was
\* built, and the result of Pikachu has the short title only
C20_Witness ==
    /\ pc = "done"
    /\ DOMAIN text_index = {}
    /\ t_LongPikachuTitle \in HitSet(title_word_index, normalize(s_Pikachu))
    /\ \E i \in 1..Len(results) :
            /\ results[i].pokemon = s_Pikachu
            /\ results[i].wiki_pages = <<t_Pikachu>>

\* with a text index the long title is a candidate, by the text strategy
C20_WitnessByText ==
    /\ pc = "done"
    /\ \E i \in 1..Len(results) :
            t_LongPikachuTitle \in SeqToSet(results[i].wiki_pages)

\* the keys title i of wiki_titles is put under in the exact map
ExactKeysOf(i) ==
    {Lower(wiki_titles[i])}
        \cup (IF HasPokemonSuffix(wiki_titles[i])
                THEN {Lower(BeforeLastParen(wiki_titles[i]))} ELSE {})

\* the keys title i of wiki_titles is put under in the normalized map
NormalizedKeysOf(i) ==
    {normalize(wiki_titles[i])}
        \cup (IF HasPokemonSuffix(wiki_titles[i])
                THEN {normalize(BeforeLastParen(wiki_titles[i]))} ELSE {})

\* the last position of wiki_titles in I
LastOf(I) == CHOOSE i \in I : \A j \in I : j <= i

\* C21: once the maps are built, each holds exactly the keys of the titles,
\* and under every key the title that comes last in wiki_titles among the
\* titles put under that key, as a whole title or as the stripped base of a
\* "(Pokémon)"/"(Pokemon)" title.
C21_LastTitleWins ==
    pc \in {"loop", "done", "saved"} =>
        /\ DOMAIN wiki_exact = UNION {ExactKeysOf(i) : i \in 1..Len(wiki_titles)}
        /\ \A key \in DOMAIN wiki_exact :
                wiki_exact[key] =
                    wiki_titles[LastOf({i \in 1..Len(wiki_titles) : key \in ExactKeysOf(i)})]
        /\ DOMAIN wiki_normalized = UNION {NormalizedKeysOf(i) : i \in 1..Len(wiki_titles)}
        /\ \A key \in DOMAIN wiki_normalized :
                wiki_normalized[key] =
                    wiki_titles[LastOf({i \in 1..Len(wiki_titles) : key \in NormalizedKeysOf(i)})]

\* "Pikachu" comes first, "Pikachu (Pokémon)" later, and the key pikachu
\* holds the later title in both maps
C21_Witness ==
    /\ pc = "loop"
    /\ \E i, j \in 1..Len(wiki_titles) :
            i < j /\ wiki_titles[i] = t_Pikachu /\ wiki_titles[j] = t_PikachuPokemon
    /\ wiki_exact[Lower(s_Pikachu)] = t_PikachuPokemon
    /\ wiki_normalized[normalize(s_Pikachu)] = t_PikachuPokemon

\* C27: a title of the corpus that equals the entity name but for case is in
\* the entity's wiki_pages, whatever the order of the corpus and whatever
\* other titles it has, a later "N (Pokémon)" title included
C27_OwnTitleAmongPages ==
    pc \in {"loop", "done", "saved"} =>
        \A i \in 1..Len(results) :
            \A k \in 1..Len(wiki_titles) :
                Lower(wiki_titles[k]) = Lower(results[i].pokemon) =>
                    wiki_titles[k] \in SeqToSet(results[i].wiki_pages)

\* w is made of the letters a-z and stands in s as one whole run of them
IsAlphabeticWordOf(w, s) ==
    /\ w # EmptyStr
    /\ \A i \in 1..Len(w) : w[i] \in AsciiLowerChars
    /\ \E p \in 1..(Len(s) - Len(w) + 1) :
            /\ SubSeq(s, p, p + Len(w) - 1) = w
            /\ p = 1 \/ s[p - 1] \notin AsciiLowerChars
            /\ p + Len(w) > Len(s) \/ s[p + Len(w)] \notin AsciiLowerChars

\* C28: build_text_index records a title as a mention of an entity exactly
\* when the entity's whole lower-cased base name is one alphabetic word of
\* the lower-cased text of the title; so an entity whose base name has a
\* space, a digit or punctuation has no mention, and every entity name has
\* an entry in the map
C28_MentionIffWholeWord ==
    (pc \in {"join", "loop", "done"} /\ DOMAIN wiki_text # {}) =>
        /\ DOMAIN text_index = SeqToSet(Names(pokemon_cards))
        /\ \A name \in DOMAIN text_index :
              LET base == Lower(extract_base_pokemon(name))
              IN  /\ text_index[name] \subseteq DOMAIN wiki_text
                  /\ \A t \in DOMAIN wiki_text :
                        t \in text_index[name] <=> IsAlphabeticWordOf(base, Lower(wiki_text[t]))
                  /\ (\E i \in 1..Len(base) : base[i] \notin AsciiLowerChars) =>
                        text_index[name] = {}

\* Mr. Mime stands in the text of a title and is no mention of it
C28_Witness ==
    /\ pc = "join"
    /\ s_MrMime \in DOMAIN text_index
    /\ text_index[s_MrMime] = {}
    /\ \E t \in DOMAIN wiki_text : Contains(Lower(wiki_text[t]), Lower(s_MrMime))

\* Pikachu V is mentioned where the word pikachu stands in the text
C28_WitnessMention ==
    /\ pc = "join"
    /\ s_PikachuV \in DOMAIN text_index
    /\ t_ListOfPokemon \in text_index[s_PikachuV]
    /\ t_PIKACHU \in DOMAIN wiki_text
    /\ t_PIKACHU \notin text_index[s_PikachuV]

-----------------------------------------------------------------------------
(* load_cards and load_wiki_pages_with_text, the loading part of run_join *)

MaxFiles == 3

MaxEntries == 2

\* p.get('text', '')[:50000]
TextLimit == 50000

\* the card files: parses is FALSE for a file json.load rejects; an absent or
\* empty 'Pokemon' or 'Name' is the empty string
CardFiles ==
    {[parses |-> FALSE, Pokemon |-> EmptyStr, Name |-> EmptyStr],
     [parses |-> TRUE, Pokemon |-> s_Pikachu, Name |-> s_Pikachu],
     [parses |-> TRUE, Pokemon |-> <<" ">> \o s_PikachuV, Name |-> s_PikachuV],
     [parses |-> TRUE, Pokemon |-> EmptyStr, Name |-> EmptyStr]}

\* the entries of wiki_pages_with_text.json: an absent 'text' is the empty
\* string, has_title is FALSE for an entry without the key 'title'
PageEntries ==
    {[has_title |-> TRUE, title |-> t_Pikachu, text |-> TextOf(t_Pikachu)],
     [has_title |-> TRUE, title |-> t_Pikachu, text |-> EmptyStr],
     [has_title |-> TRUE, title |-> t_PIKACHU, text |-> TextOf(t_PIKACHU)],
     [has_title |-> FALSE, title |-> EmptyStr, text |-> TextOf(t_ListOfPokemon)]}

\* card.get('Pokemon') or card.get('Name', '')
PokemonName(card) == IF card.Pokemon # EmptyStr THEN card.Pokemon ELSE card.Name

\* pokemon_cards[pokemon_clean].append(card_data), the key created when new
AddCard(groups, pokemon_clean, card_data) ==
    IF \E i \in 1..Len(groups) : groups[i].pokemon = pokemon_clean
    THEN [i \in 1..Len(groups) |->
            IF groups[i].pokemon = pokemon_clean
            THEN [groups[i] EXCEPT !.cards = Append(@, card_data)]
            ELSE groups[i]]
    ELSE Append(groups, [pokemon |-> pokemon_clean, cards |-> <<card_data>>])

\* the body of the loop of load_cards for one file
LoadedWith(groups, card) ==
    IF ~card.parses THEN groups
    ELSE IF PokemonName(card) = EmptyStr THEN groups
    ELSE AddCard(groups, Strip(PokemonName(card)), [name |-> card.Name])

\* {p['title']: p.get('text', '')[:50000] for p in pages} up to entry n
RECURSIVE TextDict(_, _)
TextDict(pages, n) ==
    IF n = 0 THEN EmptyDict
    ELSE DictPut(TextDict(pages, n - 1), pages[n].title,
                 Slice(pages[n].text, 0,
                       IF Len(pages[n].text) < TextLimit THEN Len(pages[n].text)
                       ELSE TextLimit))

InitLoad ==
    /\ cards_dir \in UNION {[1..n -> CardFiles] : n \in 0..MaxFiles}
    /\ text_file \in UNION {[1..n -> PageEntries] : n \in 0..MaxEntries}
    /\ files_read = 0
    /\ loaded_cards = << >>
    /\ loaded_text = EmptyDict
    /\ load_pc = "cards"
    /\ NoNames
    /\ NoCard
    /\ NoJoin
    /\ NoExtract
    /\ NoOutput
    /\ NoAll
    /\ NoParse
    /\ NoSortKey
    /\ NoClean
    /\ NoDesc
    /\ NoCrawl

\* load_cards: one iteration of the loop over the files
LoadCardFile ==
    /\ load_pc = "cards"
    /\ files_read < Len(cards_dir)
    /\ loaded_cards' = LoadedWith(loaded_cards, cards_dir[files_read + 1])
    /\ files_read' = files_read + 1
    /\ UNCHANGED <<cards_dir, text_file, loaded_text, load_pc>>
    /\ UNCHANGED <<nmVars, cardVars, joinVars, extractVars, outputVars, allVars, parseVars, sortKeyVars, cleanVars, descVars, crawlVars>>

\* load_cards returns pokemon_cards
ReturnCards ==
    /\ load_pc = "cards"
    /\ files_read = Len(cards_dir)
    /\ load_pc' = "text"
    /\ UNCHANGED <<cards_dir, files_read, loaded_cards, text_file, loaded_text>>
    /\ UNCHANGED <<nmVars, cardVars, joinVars, extractVars, outputVars, allVars, parseVars, sortKeyVars, cleanVars, descVars, crawlVars>>

\* load_wiki_pages_with_text: p['title'] raises KeyError for an entry without
\* a title, nothing in the function or in run_join catches it
LoadWikiPagesWithText ==
    /\ load_pc = "text"
    /\ IF \E i \in 1..Len(text_file) : ~text_file[i].has_title
       THEN /\ load_pc' = "raised"
            /\ UNCHANGED loaded_text
       ELSE /\ load_pc' = "loaded"
            /\ loaded_text' = TextDict(text_file, Len(text_file))
    /\ UNCHANGED <<cards_dir, files_read, loaded_cards, text_file>>
    /\ UNCHANGED <<nmVars, cardVars, joinVars, extractVars, outputVars, allVars, parseVars, sortKeyVars, cleanVars, descVars, crawlVars>>

NextLoad ==
    \/ LoadCardFile
    \/ ReturnCards
    \/ LoadWikiPagesWithText

SpecLoad == InitLoad /\ [][NextLoad]_vars

\* the card of file i is in the group of its stripped name
CardLoaded(i) ==
    \E g \in 1..Len(loaded_cards) :
        /\ loaded_cards[g].pokemon = Strip(PokemonName(cards_dir[i]))
        /\ \E c \in 1..Len(loaded_cards[g].cards) :
                loaded_cards[g].cards[c].name = cards_dir[i].Name

\* C12: when the loading is over, every card file that parses and names a
\* Pokemon has its card in pokemon_cards, whatever the other files are, and
\* every wiki entry that has a title is in the loaded text dict, whatever the
\* other entries are.
C12_MalformedRecordSkipped ==
    load_pc \in {"loaded", "raised"} =>
        /\ \A i \in 1..Len(cards_dir) :
                (cards_dir[i].parses /\ PokemonName(cards_dir[i]) # EmptyStr)
                    => CardLoaded(i)
        /\ \A i \in 1..Len(text_file) :
                text_file[i].has_title => text_file[i].title \in DOMAIN loaded_text

\* the card part of C12 alone: a file that fails to parse stops no other file
CardsLoadedDespiteMalformedFile ==
    load_pc # "cards" =>
        \A i \in 1..Len(cards_dir) :
            (cards_dir[i].parses /\ PokemonName(cards_dir[i]) # EmptyStr)
                => CardLoaded(i)

-----------------------------------------------------------------------------
(* cmd_all: the steps of the 'all' command, and what main returns for it *)

\* the names of the steps, in the order of the list in cmd_all
Steps == <<"Spark Job", "Extract Info", "Join", "Statistics">>

\* main returns 130 on KeyboardInterrupt
InterruptCode == 130

InitAll ==
    /\ args \in [no_wait : BOOLEAN, skip_reverse : BOOLEAN, continue_on_error : BOOLEAN]
    /\ started = << >>
    /\ raised = {}
    /\ all_pc = "loop"
    /\ exit_code = -1
    /\ NoNames
    /\ NoCard
    /\ NoJoin
    /\ NoExtract
    /\ NoOutput
    /\ NoLoad
    /\ NoParse
    /\ NoSortKey
    /\ NoClean
    /\ NoDesc
    /\ NoCrawl

\* the loop takes the next step and calls func()
StartStep ==
    /\ all_pc = "loop"
    /\ Len(started) < Len(Steps)
    /\ started' = Append(started, Steps[Len(started) + 1])
    /\ all_pc' = "step"
    /\ UNCHANGED <<args, raised, exit_code>>
    /\ UNCHANGED <<nmVars, cardVars, joinVars, extractVars, outputVars, loadVars, parseVars, sortKeyVars, cleanVars, descVars, crawlVars>>

\* func() returns; its return value is not looked at
StepReturns ==
    /\ all_pc = "step"
    /\ all_pc' = "loop"
    /\ UNCHANGED <<args, started, raised, exit_code>>
    /\ UNCHANGED <<nmVars, cardVars, joinVars, extractVars, outputVars, loadVars, parseVars, sortKeyVars, cleanVars, descVars, crawlVars>>

\* an error that stops the command whatever the option says
StepRaises_always_stops ==
    /\ all_pc = "step"
    /\ raised' = raised \cup {started[Len(started)]}
    /\ all_pc' = "returned"
    /\ exit_code' = 1
    /\ UNCHANGED <<args, started>>
    /\ UNCHANGED <<nmVars, cardVars, joinVars, extractVars, outputVars, loadVars, parseVars, sortKeyVars, cleanVars, descVars, crawlVars>>

\* func() raises an Exception: cmd_all returns 1 unless continue_on_error
StepRaises ==
    /\ all_pc = "step"
    /\ raised' = raised \cup {started[Len(started)]}
    /\ IF args.continue_on_error
       THEN /\ all_pc' = "loop"
            /\ UNCHANGED exit_code
       ELSE /\ all_pc' = "returned"
            /\ exit_code' = 1
    /\ UNCHANGED <<args, started>>
    /\ UNCHANGED <<nmVars, cardVars, joinVars, extractVars, outputVars, loadVars, parseVars, sortKeyVars, cleanVars, descVars, crawlVars>>

\* KeyboardInterrupt during func(): not an Exception, it leaves cmd_all and
\* is caught in main
StepInterrupted ==
    /\ all_pc = "step"
    /\ all_pc' = "returned"
    /\ exit_code' = InterruptCode
    /\ UNCHANGED <<args, started, raised>>
    /\ UNCHANGED <<nmVars, cardVars, joinVars, extractVars, outputVars, loadVars, parseVars, sortKeyVars, cleanVars, descVars, crawlVars>>

\* the loop is over: cmd_all returns 0
AllStepsCompleted ==
    /\ all_pc = "loop"
    /\ Len(started) = Len(Steps)
    /\ all_pc' = "returned"
    /\ exit_code' = 0
    /\ UNCHANGED <<args, started, raised>>
    /\ UNCHANGED <<nmVars, cardVars, joinVars, extractVars, outputVars, loadVars, parseVars, sortKeyVars, cleanVars, descVars, crawlVars>>

NextAll ==
    \/ StartStep
    \/ StepReturns
    \/ StepRaises
    \/ StepInterrupted
    \/ AllStepsCompleted

SpecAll == InitAll /\ [][NextAll]_vars

\* C16: the steps started are always the first ones of Spark Job, Extract
\* Info, Join, Statistics, in that order and each once; without
\* --continue-on-error a step that raised an error is the last one started
\* and the command has returned 1; with --continue-on-error the command,
\* unless interrupted from the keyboard, returns only after all four steps
\* were started, however many of them raised.
C16_StepsInOrder ==
    /\ Len(started) <= Len(Steps)
    /\ \A i \in 1..Len(started) : started[i] = Steps[i]
    /\ (~args.continue_on_error /\ raised # {}) =>
            /\ raised = {started[Len(started)]}
            /\ all_pc = "returned"
            /\ exit_code = 1
    /\ (args.continue_on_error /\ all_pc = "returned" /\ exit_code # InterruptCode) =>
            started = Steps

\* with --continue-on-error the second step raised and the two later steps
\* were started all the same
C16_Witness ==
    /\ args.continue_on_error
    /\ "Extract Info" \in raised
    /\ started = Steps
    /\ all_pc = "returned"

\* without --continue-on-error the second step raised and the command
\* returned 1 with two steps started
C16_StopWitness ==
    /\ ~args.continue_on_error
    /\ raised = {"Extract Info"}
    /\ Len(started) = 2
    /\ exit_code = 1

-----------------------------------------------------------------------------
(* ExtractManager.parse_card: a page is given by the captures of the five
   card regexes in it, None for a regex re.search does not find *)

MaxSpans == 3

\* the captures of CARD_PRICE and of CARD_SET: a list of up to MaxSpans spans
Spans(values) == UNION {[1..n -> values] : n \in 0..MaxSpans}

Pages ==
    [name   : {None, s_Pikachu, <<"N", "&", "a", "m", "p", ";", "M">>},
     image  : {None, <<"u", "r", "l">>},
     id     : {None, <<"1", "3", "1">>},
     prices : Spans({<<"$", "1">>}),
     sets   : Spans({<<"S", "&", "a", "m", "p", ";", "V">>})]

\* _findall_unescape: html.unescape of every match
findall_unescape(matches) == [i \in 1..Len(matches) |-> HtmlUnescape(matches[i])]

\* price = price[min(len(price) - 1, 2)] if the list is not empty
PickedPrice(price) ==
    IF price = << >> THEN price
    ELSE price[(IF Len(price) - 1 < 2 THEN Len(price) - 1 ELSE 2) + 1]

\* parse_card: the set is element [1] of the CARD_SET matches, taken before
\* the test of the required fields
parse_card(page) ==
    IF Len(findall_unescape(page.sets)) < 2
    THEN [outcome |-> "IndexError", card |-> EmptyDict]
    ELSE IF page.name = None \/ page.id = None
    THEN [outcome |-> "None", card |-> EmptyDict]
    ELSE [outcome |-> "PokeCard",
          card    |-> [name     |-> page.name,
                       image    |-> page.image,
                       id       |-> page.id,
                       price    |-> PickedPrice(findall_unescape(page.prices)),
                       card_set |-> findall_unescape(page.sets)[2]]]

InitParse ==
    /\ html_content \in Pages
    /\ parse_card_result = [outcome |-> "pending", card |-> EmptyDict]
    /\ NoNames
    /\ NoCard
    /\ NoJoin
    /\ NoExtract
    /\ NoOutput
    /\ NoLoad
    /\ NoAll
    /\ NoSortKey
    /\ NoClean
    /\ NoDesc
    /\ NoCrawl

ParseCard ==
    /\ parse_card_result.outcome = "pending"
    /\ parse_card_result' = parse_card(html_content)
    /\ UNCHANGED html_content
    /\ UNCHANGED <<nmVars, cardVars, joinVars, extractVars, outputVars, loadVars, allVars, sortKeyVars, cleanVars, descVars, crawlVars>>

NextParse == ParseCard

SpecParse == InitParse /\ [][NextParse]_vars

\* C17: for a page in which none of the five card regexes matches, parse_card
\* returns None and raises nothing.
C17_NoFieldsGivesNone ==
    (/\ parse_card_result.outcome # "pending"
     /\ html_content.name = None
     /\ html_content.image = None
     /\ html_content.id = None
     /\ html_content.prices = << >>
     /\ html_content.sets = << >>)
        => parse_card_result.outcome = "None"

-----------------------------------------------------------------------------
(* sort_key on its own: one entity name and one candidate title *)

\* str.upper()
Upper(s) == [i \in 1..Len(s) |-> UpperChar(s[i])]

\* entity names: base equal to the name, equal up to case, a stripped suffix,
\* a stripped prefix
SortKeyNames ==
    {s_Pikachu, Lower(s_Pikachu), s_PikachuV,
     <<"M", "e", "g", "a", " ">> \o s_Pikachu}

\* candidate titles: a stem, what follows it, and the case it is written in
SortKeyTitles ==
    LET stems == {s_Pikachu, s_PikachuV, <<"M", "e", "g", "a", " ">> \o s_Pikachu, s_Wooper}
        tails == {EmptyStr, <<" ">> \o t_PokemonAccent, <<" ">> \o t_PokemonPlain,
                  <<" ", "X">>, <<"s">>}
    IN  UNION {{stem \o tail, Upper(stem \o tail), Lower(stem \o tail)} :
                    <<stem, tail>> \in stems \X tails}

InitSortKey ==
    /\ sk_pokemon \in SortKeyNames
    /\ sk_title \in SortKeyTitles
    /\ sk_tier = -1
    /\ NoNames
    /\ NoCard
    /\ NoJoin
    /\ NoExtract
    /\ NoOutput
    /\ NoLoad
    /\ NoAll
    /\ NoParse
    /\ NoClean
    /\ NoDesc
    /\ NoCrawl

\* sorted() calls sort_key on a candidate
CallSortKey ==
    /\ sk_tier = -1
    /\ sk_tier' = sort_key(sk_title, EntityKeys(sk_pokemon))
    /\ UNCHANGED <<sk_pokemon, sk_title>>
    /\ UNCHANGED <<nmVars, cardVars, joinVars, extractVars, outputVars, loadVars, allVars, parseVars, cleanVars, descVars, crawlVars>>

NextSortKey == CallSortKey

SpecSortKey == InitSortKey /\ [][NextSortKey]_vars

\* a and b are equal when case is ignored
SameIgnoringCase(a, b) == Lower(a) = Lower(b)

\* a starts with b when case is ignored
StartsIgnoringCase(a, b) == StartsWith(Lower(a), Lower(b))

\* a is b followed by " (Pokémon)" or " (Pokemon)", case ignored
IsDisambiguated(a, b) ==
    \/ SameIgnoringCase(a, b \o <<" ">> \o t_PokemonAccent)
    \/ SameIgnoringCase(a, b \o <<" ">> \o t_PokemonPlain)

\* the tier the rule gives the title T for the name N with base name B
RuleTier(T, N, B) ==
    IF ~SameIgnoringCase(B, N) /\ SameIgnoringCase(T, B) THEN 0
    ELSE IF ~SameIgnoringCase(B, N) /\ IsDisambiguated(T, B) THEN 1
    ELSE IF SameIgnoringCase(T, N) THEN 2
    ELSE IF IsDisambiguated(T, N) THEN 3
    ELSE IF ~SameIgnoringCase(B, N) /\ StartsIgnoringCase(T, B) THEN 4
    ELSE IF StartsIgnoringCase(T, N) THEN 5
    ELSE 6

\* C18: sort_key gives every title the tier of the rule, case ignored in
\* every comparison (B != N included), and a name whose base is the name
\* itself never gives tier 0, 1 or 4.
C18_TierAsSpecified ==
    sk_tier # -1 =>
        /\ sk_tier = RuleTier(sk_title, sk_pokemon, extract_base_pokemon(sk_pokemon))
        /\ SameIgnoringCase(extract_base_pokemon(sk_pokemon), sk_pokemon)
                => sk_tier \notin {0, 1, 4}

\* a title that starts with the name but not with its base: tier 5 with B != N
C18_Witness ==
    /\ sk_tier = 5
    /\ ~SameIgnoringCase(extract_base_pokemon(sk_pokemon), sk_pokemon)

-----------------------------------------------------------------------------
(* _clean_wiki_markup with its template loop, on markup made of braces,
   brackets and letters: the entity, ref, tag and quote steps find nothing in
   such markup *)

MaxCleanLen == 5

MaxDepth == 6

\* a template nested d deep around the text t
RECURSIVE Nested(_)
Nested(d) ==
    IF d = 0 THEN <<"t">> ELSE <<"{", "{", "t">> \o Nested(d - 1) \o <<"}", "}">>

\* the texts cleaned: every short string of braces, brackets and a letter,
\* and the letters x and y around one or two balanced templates
CleanInputs ==
    StringsUpTo({"{", "}", "[", "]", "a"}, MaxCleanLen)
    \cup {<<"x">> \o Nested(d) \o <<"y">> : d \in 1..MaxDepth}
    \cup {<<"x">> \o Nested(d) \o <<" ">> \o Nested(e) \o <<"y">> : d, e \in 1..2}

InitClean ==
    /\ clean_input \in CleanInputs
    /\ clean_text = clean_input
    /\ clean_passes = 0
    /\ clean_pc = "start"
    /\ NoNames
    /\ NoCard
    /\ NoJoin
    /\ NoExtract
    /\ NoOutput
    /\ NoLoad
    /\ NoAll
    /\ NoParse
    /\ NoSortKey
    /\ NoDesc
    /\ NoCrawl

\* 'if not text: return ""'
ReturnEmpty ==
    /\ clean_pc = "start"
    /\ clean_text = EmptyStr
    /\ clean_pc' = "returned"
    /\ UNCHANGED <<clean_input, clean_text, clean_passes>>
    /\ UNCHANGED <<nmVars, cardVars, joinVars, extractVars, outputVars, loadVars, allVars, parseVars, sortKeyVars, descVars, crawlVars>>

\* the steps before the template loop: tags and links
CleanBeforeTemplates ==
    /\ clean_pc = "start"
    /\ clean_text # EmptyStr
    /\ clean_text' = RemoveLinks(RemoveTags(clean_text))
    /\ clean_pc' = "templates"
    /\ UNCHANGED <<clean_input, clean_passes>>
    /\ UNCHANGED <<nmVars, cardVars, joinVars, extractVars, outputVars, loadVars, allVars, parseVars, sortKeyVars, descVars, crawlVars>>

\* one pass of the template loop
TemplatePass ==
    /\ clean_pc = "templates"
    /\ clean_passes < TemplatePasses
    /\ Contains(clean_text, <<"{", "{">>)
    /\ clean_text' = StripTemplatesOnce(clean_text)
    /\ clean_passes' = clean_passes + 1
    /\ UNCHANGED <<clean_input, clean_pc>>
    /\ UNCHANGED <<nmVars, cardVars, joinVars, extractVars, outputVars, loadVars, allVars, parseVars, sortKeyVars, descVars, crawlVars>>

\* the loop is left by break or after its last pass; the rest of the function
CleanFinish ==
    /\ clean_pc = "templates"
    /\ clean_passes = TemplatePasses \/ ~Contains(clean_text, <<"{", "{">>)
    /\ clean_text' = CleanAfterTemplates(clean_text)
    /\ clean_pc' = "returned"
    /\ UNCHANGED <<clean_input, clean_passes>>
    /\ UNCHANGED <<nmVars, cardVars, joinVars, extractVars, outputVars, loadVars, allVars, parseVars, sortKeyVars, descVars, crawlVars>>

NextClean ==
    \/ ReturnEmpty
    \/ CleanBeforeTemplates
    \/ TemplatePass
    \/ CleanFinish

SpecClean == InitClean /\ [][NextClean]_vars

-----------------------------------------------------------------------------
(* Properties of _clean_wiki_markup *)

\* the balanced inputs whose templates nest at most TemplatePasses deep
ShallowTemplates ==
    {<<"x">> \o Nested(d) \o <<"y">> : d \in 1..TemplatePasses}
    \cup {<<"x">> \o Nested(d) \o <<" ">> \o Nested(e) \o <<"y">> : d, e \in 1..2}

\* C24: the template loop runs at most 5 passes; for balanced templates
\* nested at most 5 deep the returned text has nothing that was inside a
\* template; and for every input the returned text has no "{{" and no "}}"
C24_TemplatesStripped ==
    /\ clean_passes <= TemplatePasses
    /\ clean_pc = "returned" =>
          /\ clean_input \in ShallowTemplates => ~Contains(clean_text, <<"t">>)
          /\ ~Contains(clean_text, <<"{", "{">>)
          /\ ~Contains(clean_text, <<"}", "}">>)

-----------------------------------------------------------------------------
(* extract_description on a whole page text: the infobox and the short
   description are cut out, the text is split on blank lines and the
   paragraphs are cleaned and tested in turn *)

MaxParagraphs == 2

\* the two readings of {{[Ii]nfobox and of {{[Ss]hort description
InfoboxOpeners ==
    {<<"{", "{", c, "n", "f", "o", "b", "o", "x">> : c \in {"I", "i"}}

ShortDescriptionOpeners ==
    {<<"{", "{", c, "h", "o", "r", "t", " ", "d", "e", "s", "c", "r", "i", "p", "t", "i", "o", "n">> :
        c \in {"S", "s"}}

\* re.sub(opener + r'[^}]+\}\}', '', s): after the opener at least one
\* character other than "}" and then "}}" where the first "}" stands
RECURSIVE StripBlocks(_, _)
StripBlocks(s, openers) ==
    LET Close(p, o) == IndexFrom(s, "}", p + Len(o))
        Opens(p, o) == /\ p + Len(o) - 1 <= Len(s)
                       /\ SubSeq(s, p, p + Len(o) - 1) = o
                       /\ Close(p, o) > p + Len(o)
                       /\ Close(p, o) < Len(s)
                       /\ s[Close(p, o) + 1] = "}"
        IsBlockAt(p) == s[p] = "{" /\ \E o \in openers : Opens(p, o)
    IN  IF \A p \in 1..Len(s) : ~IsBlockAt(p) THEN s
        ELSE LET p == CHOOSE q \in 1..Len(s) :
                        IsBlockAt(q) /\ \A r \in 1..(q - 1) : ~IsBlockAt(r)
                 o == CHOOSE x \in openers : Opens(p, x)
             IN  SubSeq(s, 1, p - 1)
                     \o StripBlocks(SubSeq(s, Close(p, o) + 2, Len(s)), openers)

\* text.split('\n\n')
RECURSIVE SplitParagraphs(_)
SplitParagraphs(s) ==
    LET IsBreakAt(p) == p < Len(s) /\ s[p] = "\n" /\ s[p + 1] = "\n"
    IN  IF \A p \in 1..Len(s) : ~IsBreakAt(p) THEN <<s>>
        ELSE LET p == CHOOSE q \in 1..Len(s) :
                        IsBreakAt(q) /\ \A r \in 1..(q - 1) : ~IsBreakAt(r)
             IN  <<SubSeq(s, 1, p - 1)>> \o SplitParagraphs(SubSeq(s, p + 2, Len(s)))

\* the test of a cleaned paragraph
Substantial(para) ==
    /\ Len(para) > DescriptionMinLen
    /\ ~StartsWith(para, <<"{", "{">>)
    /\ ~StartsWith(para, <<"|">>)

\* para[:500] + ('...' if len(para) > 500 else '') without the dots
Limited_without_dots(para) ==
    IF Len(para) > DescriptionMaxLen THEN SubSeq(para, 1, DescriptionMaxLen) ELSE para

\* para[:500] + ('...' if len(para) > 500 else '')
Limited(para) ==
    IF Len(para) > DescriptionMaxLen
    THEN SubSeq(para, 1, DescriptionMaxLen) \o <<".", ".", ".">>
    ELSE para

\* n times the character c
Run(c, n) == [i \in 1..n |-> c]

\* the pieces the texts are made of: prose at both limits of the length,
\* prose behind a bar, a link and stray braces, and infobox and short
\* description blocks, one with a template inside, one with a blank line
DescriptionPieces == {
    Run("s", DescriptionMinLen),
    Run("m", DescriptionMinLen + 1),
    Run("x", DescriptionMaxLen),
    Run("l", DescriptionMaxLen + 1),
    <<"|">> \o Run("b", DescriptionMinLen + 1),
    <<"[", "[">> \o Run("k", DescriptionMinLen - 3) \o <<"]", "]">>,
    <<"{", "}", "}", "{">> \o Run("c", DescriptionMinLen + 1),
    <<"{", "{", "I", "n", "f", "o", "b", "o", "x", " ">> \o Run("i", DescriptionMinLen + 1) \o <<"}", "}">>,
    <<"{", "{", "i", "n", "f", "o", "b", "o", "x", " ", "{", "{", "n", "}", "}", "|", " ">>
        \o Run("n", DescriptionMinLen + 1) \o <<"}", "}">>,
    <<"{", "{", "I", "n", "f", "o", "b", "o", "x", "\n", "\n">>
        \o Run("p", DescriptionMinLen + 1) \o <<"\n", "\n", "}", "}">>,
    <<"{", "{", "S", "h", "o", "r", "t", " ", "d", "e", "s", "c", "r", "i", "p", "t", "i", "o", "n", "|">>
        \o Run("d", DescriptionMinLen + 1) \o <<"}", "}">>,
    <<"{", "{", "S", "h", "o", "r", "t", " ", "d", "e", "s", "c", "r", "i", "p", "t", "i", "o", "n", "|", "d", "}", "}">>
        \o Run("e", DescriptionMinLen + 1)
}

\* the pieces with a blank line between them
RECURSIVE JoinParagraphs(_)
JoinParagraphs(ps) ==
    IF ps = << >> THEN EmptyStr
    ELSE IF Len(ps) = 1 THEN ps[1]
    ELSE ps[1] \o <<"\n", "\n">> \o JoinParagraphs(Tail(ps))

DescriptionTexts ==
    {JoinParagraphs(ps) : ps \in UNION {[1..n -> DescriptionPieces] : n \in 0..MaxParagraphs}}

InitDesc ==
    /\ desc_text \in DescriptionTexts
    /\ paragraphs = << >>
    /\ desc_result = None
    /\ desc_pc = "start"
    /\ NoNames
    /\ NoCard
    /\ NoJoin
    /\ NoExtract
    /\ NoOutput
    /\ NoLoad
    /\ NoAll
    /\ NoParse
    /\ NoSortKey
    /\ NoClean
    /\ NoCrawl

\* the two re.sub calls and the split
SplitText ==
    /\ desc_pc = "start"
    /\ paragraphs' = SplitParagraphs(
                         StripBlocks(StripBlocks(desc_text, InfoboxOpeners), ShortDescriptionOpeners))
    /\ desc_pc' = "loop"
    /\ UNCHANGED <<desc_text, desc_result>>
    /\ UNCHANGED <<nmVars, cardVars, joinVars, extractVars, outputVars, loadVars, allVars, parseVars, sortKeyVars, cleanVars, crawlVars>>

\* one turn of the loop over the paragraphs
TestParagraph ==
    /\ desc_pc = "loop"
    /\ paragraphs # << >>
    /\ LET para == clean_wiki_markup(Head(paragraphs))
       IN  IF Substantial(para)
           THEN /\ desc_result' = Limited(para)
                /\ desc_pc' = "returned"
                /\ UNCHANGED paragraphs
           ELSE /\ paragraphs' = Tail(paragraphs)
                /\ UNCHANGED <<desc_result, desc_pc>>
    /\ UNCHANGED desc_text
    /\ UNCHANGED <<nmVars, cardVars, joinVars, extractVars, outputVars, loadVars, allVars, parseVars, sortKeyVars, cleanVars, crawlVars>>

\* 'return None' after the loop
ReturnNoDescription ==
    /\ desc_pc = "loop"
    /\ paragraphs = << >>
    /\ desc_result' = None
    /\ desc_pc' = "returned"
    /\ UNCHANGED <<desc_text, paragraphs>>
    /\ UNCHANGED <<nmVars, cardVars, joinVars, extractVars, outputVars, loadVars, allVars, parseVars, sortKeyVars, cleanVars, crawlVars>>

NextDesc ==
    \/ SplitText
    \/ TestParagraph
    \/ ReturnNoDescription

SpecDesc == InitDesc /\ [][NextDesc]_vars

-----------------------------------------------------------------------------
(* Properties of extract_description *)

\* the paragraphs of the text once the infobox and the short description
\* are cut out, each one cleaned
CleanedParagraphs ==
    LET ps == SplitParagraphs(
                  StripBlocks(StripBlocks(desc_text, InfoboxOpeners), ShortDescriptionOpeners))
    IN  [k \in 1..Len(ps) |-> clean_wiki_markup(ps[k])]

\* the cleaned paragraph is longer than 50 characters and does not begin
\* with template syntax
QualifiesAsDescription(p) ==
    /\ Len(p) >= DescriptionMinLen + 1
    /\ ~(Len(p) >= 2 /\ p[1] = "{" /\ p[2] = "{")
    /\ p[1] # "|"

\* C25: extract_description returns the first paragraph, in document order,
\* whose cleaned text is longer than 50 characters and does not begin with
\* template syntax: the cleaned paragraph itself when it has at most 500
\* characters, its first 500 characters followed by "..." otherwise; it
\* returns None when no paragraph qualifies
C25_FirstSubstantialParagraph ==
    desc_pc = "returned" =>
        LET cs == CleanedParagraphs
            Good == {k \in 1..Len(cs) : QualifiesAsDescription(cs[k])}
        IN  IF Good = {} THEN desc_result = None
            ELSE LET k == CHOOSE g \in Good : \A h \in Good : g <= h
                 IN  IF Len(cs[k]) <= DescriptionMaxLen
                     THEN desc_result = cs[k]
                     ELSE /\ Len(desc_result) = DescriptionMaxLen + 3
                          /\ \A i \in 1..DescriptionMaxLen : desc_result[i] = cs[k][i]
                          /\ \A i \in 1..3 : desc_result[DescriptionMaxLen + i] = "."

\* a paragraph was passed over and a later one of more than 500 characters
\* is returned cut, with the dots
C25_Witness ==
    /\ desc_pc = "returned"
    /\ desc_result # None
    /\ Len(desc_result) = DescriptionMaxLen + 3
    /\ Len(paragraphs) < Len(CleanedParagraphs)

\* no paragraph of a text that has long paragraphs qualifies
C25_WitnessNone ==
    /\ desc_pc = "returned"
    /\ desc_result = None
    /\ \E k \in 1..Len(CleanedParagraphs) : Len(CleanedParagraphs[k]) > DescriptionMinLen

-----------------------------------------------------------------------------
(* The crawler: Crawler.run with get_url and add_to_visit, and the
   LinkExtractor it calls.  scrape_page returns a result or None; the content
   of a page is given by what the HREF and SRC expressions find in it.  The
   loop is cut where it awaits the scrapes of the batch. *)

MaxUrls == 11

\* MAX_PAGES of crawler/config.py
MAX_PAGES == 10

root_url == <<"h", "t", "t", "p", ":", "/", "/", "s">>

s_QuotEntity == <<"&", "q", "u", "o", "t">>

s_AmpEntity == <<"&", "a", "m", "p", ";">>

s_Amp == <<"&", "a", "m", "p">>

s_Http == <<"h", "t", "t", "p">>

blocked_exts == {
    <<".", "j", "s">>, <<".", "c", "s", "s">>, <<".", "p", "n", "g">>, <<".", "j", "p", "g">>,
    <<".", "j", "p", "e", "g">>, <<".", "g", "i", "f">>, <<".", "s", "v", "g">>,
    <<".", "i", "c", "o">>, <<".", "p", "d", "f">>, <<".", "z", "i", "p">>, <<".", "r", "a", "r">>,
    <<".", "m", "p", "4">>, <<".", "m", "p", "3">>, <<".", "w", "o", "f", "f">>,
    <<".", "t", "t", "f">>, <<".", "w", "e", "b", "p">>, <<".", "j", "s", "o", "n">>
}

\* index of the first character of cs in s, 0 when there is none
IndexOfAny(s, cs) ==
    IF \A j \in 1..Len(s) : s[j] \notin cs THEN 0
    ELSE CHOOSE j \in 1..Len(s) : s[j] \in cs /\ \A k \in 1..(j - 1) : s[k] \notin cs

\* s up to the first character of cs
UpTo(s, cs) == IF IndexOfAny(s, cs) = 0 THEN s ELSE SubSeq(s, 1, IndexOfAny(s, cs) - 1)

\* s from the first character of cs on
From(s, cs) == IF IndexOfAny(s, cs) = 0 THEN EmptyStr ELSE SubSeq(s, IndexOfAny(s, cs), Len(s))

\* the link starts with a scheme: letters up to a colon
HasScheme(link) ==
    /\ IndexOfAny(link, {":"}) > 1
    /\ \A i \in 1..(IndexOfAny(link, {":"}) - 1) : IsCasedChar(link[i])

\* urljoin(base, link) for a base without path and a link that is a whole
\* url, a path from the root, or a relative path
urljoin(base, link) ==
    IF HasScheme(link) THEN link
    ELSE IF StartsWith(link, <<"/">>) THEN base \o link
    ELSE base \o <<"/">> \o link

\* urlparse(url): scheme, netloc and path; the path ends where the query or
\* the fragment begins, and the parameters after ";" in its last segment are
\* no part of it
urlparse(url) ==
    LET colon == IndexOfAny(url, {":"})
        rest == SubSeq(url, colon + 1, Len(url))
        has_netloc == StartsWith(rest, <<"/", "/">>)
        after == IF has_netloc THEN SubSeq(rest, 3, Len(rest)) ELSE rest
        whole == UpTo(IF has_netloc THEN From(after, {"/", "?", "#"}) ELSE after, {"?", "#"})
        LastSlash == IF \A i \in 1..Len(whole) : whole[i] # "/" THEN 0
                     ELSE CHOOSE i \in 1..Len(whole) :
                            whole[i] = "/" /\ \A j \in (i + 1)..Len(whole) : whole[j] # "/"
        segment == SubSeq(whole, LastSlash + 1, Len(whole))
    IN  [scheme |-> Lower(SubSeq(url, 1, colon - 1)),
         netloc |-> IF has_netloc THEN UpTo(after, {"/", "?", "#"}) ELSE EmptyStr,
         path   |-> SubSeq(whole, 1, LastSlash) \o UpTo(segment, {";"})]

\* f"{parsed.scheme}://{parsed.netloc}{parsed.path or ''}" of the joined link
structure_link(base, link) ==
    LET parsed == urlparse(urljoin(base, link))
    IN  parsed.scheme \o <<":", "/", "/">> \o parsed.netloc \o parsed.path

\* the tests of the loop of extract, in its order; the last one is
\*   "&quot" in structure_link or "&amp;"
\* whose second operand is a str that is not empty
Kept(base, disallow, link) ==
    LET sl == structure_link(base, link)
    IN  /\ StartsWith(urlparse(urljoin(base, link)).scheme, s_Http)
        /\ ~\E ext \in blocked_exts : EndsWith(Lower(sl), ext)
        /\ StartsWith(sl, base)
        /\ sl \notin disallow
        /\ ~(Contains(sl, s_QuotEntity) \/ Truthy(s_AmpEntity))

\* LinkExtractor.extract on the matches of one expression
extract(base, disallow, matches) ==
    {structure_link(base, matches[i]) : i \in {j \in 1..Len(matches) : Kept(base, disallow, matches[j])}}

\* LinkExtractor.extract_links on a page
extract_links(base, disallow, content) ==
    extract(base, disallow, content.href) \cup extract(base, disallow, content.src)

\* the urls of the site: the root and pages under it
Url(i) ==
    IF i = 1 THEN root_url
    ELSE root_url \o <<"/", <<"a", "b", "c", "d", "e", "f", "g", "h", "i", "j", "k", "l", "m">>[i]>>

\* what the two expressions find in the content of a page
PageOf(url) ==
    IF url = root_url \/ url[Len(url)] \in {"c", "e", "g", "i", "k", "m"}
    THEN [href |-> << <<"/", "n">>,
                      root_url \o <<"/", "c", ".", "p", "n", "g">>,
                      <<"m", "a", "i", "l", "t", "o", ":", "x">>,
                      <<"h", "t", "t", "p", ":", "/", "/", "t", "/", "z">>,
                      <<"/", "H", ".", "P", "N", "G">> >>,
          src  |-> << <<"/", "d", ".", "j", "s">>, <<"o">> >>]
    ELSE [href |-> << root_url \o <<"/", "p", "?", "q", "=", "1">>,
                      root_url \o <<"/", "p", "r", "i", "v", "a", "t", "e">>,
                      <<"/", "a">> \o s_QuotEntity,
                      root_url \o <<"/", "g">> \o s_AmpEntity \o <<"h">>,
                      <<"h", "t", "t", "p", "s", ":", "/", "/", "s", "/", "f">> >>,
          src  |-> << >>]

\* the disallow sets the link extractor can hold
DisallowSets == {{}, {root_url \o <<"/", "p", "r", "i", "v", "a", "t", "e">>}}

\* the urls of the site
Urls == {Url(i) : i \in 1..MaxUrls}

\* what extract_links returns for the page of each url, under each disallow set
ExtractedLinks ==
    [disallow \in DisallowSets |->
        [u \in Urls |-> extract_links(root_url, disallow, PageOf(u))]]

\* the url is a key of self.links
Known(ls, url) == \E i \in 1..Len(ls) : ls[i].url = url

\* get_url: the first pages urls of self.links that are not visited
get_url(ls, pages) ==
    LET NotVisited(l) == ~l.visited
        open == SelectSeq(ls, NotVisited)
    IN  [i \in 1..(IF Len(open) < pages THEN Len(open) ELSE pages) |-> open[i].url]

\* add_to_visit for one url
add_to_visit(ls, url) ==
    IF Known(ls, url) THEN ls
    ELSE IF Contains(url, s_Amp) THEN ls
    ELSE Append(ls, [url |-> url, visited |-> FALSE])

\* 'for link in links: self.add_to_visit(link)' in the order the set gives
RECURSIVE AddAll(_, _)
AddAll(ls, order) ==
    IF order = << >> THEN ls ELSE AddAll(add_to_visit(ls, Head(order)), Tail(order))

\* self.links[url].update({..., "visited": True}) for the results
MarkVisited(ls, ok) ==
    [i \in 1..Len(ls) |-> IF ls[i].url \in ok THEN [ls[i] EXCEPT !.visited = TRUE] ELSE ls[i]]

\* self.links after initialize_storage: the root url alone, or the urls of a
\* links.json none of which is visited yet
StoredLinks ==
    {[i \in 1..n |-> [url |-> Url(i), visited |-> FALSE]] : n \in 1..MaxUrls}

InitCrawl ==
    /\ links \in StoredLinks
    /\ links_to_crawl = << >>
    /\ robots \in DisallowSets
    /\ crawl_results = {}
    /\ batch_links = {}
    /\ crawl_pc = "start"
    /\ NoNames
    /\ NoCard
    /\ NoJoin
    /\ NoExtract
    /\ NoOutput
    /\ NoLoad
    /\ NoAll
    /\ NoParse
    /\ NoSortKey
    /\ NoClean
    /\ NoDesc

\* links_to_crawl = self.get_url(MAX_PAGES) before the loop
StartCrawl ==
    /\ crawl_pc = "start"
    /\ links_to_crawl' = get_url(links, MAX_PAGES)
    /\ crawl_pc' = "loop"
    /\ UNCHANGED <<links, robots, crawl_results, batch_links>>
    /\ UNCHANGED <<nmVars, cardVars, joinVars, extractVars, outputVars, loadVars, allVars, parseVars, sortKeyVars, cleanVars, descVars>>

\* the batch is not empty: every url of it is passed to scrape_page, and
\* asyncio.gather returns a result for some of them and None for the others
ScrapeBatch ==
    /\ crawl_pc = "loop"
    /\ Len(links_to_crawl) > 0
    /\ crawl_results' \in SUBSET SeqToSet(links_to_crawl)
    /\ crawl_pc' = "gathered"
    /\ UNCHANGED <<links, links_to_crawl, robots, batch_links>>
    /\ UNCHANGED <<nmVars, cardVars, joinVars, extractVars, outputVars, loadVars, allVars, parseVars, sortKeyVars, cleanVars, descVars>>

\* the rest of the turn: the links of the results are extracted, their urls
\* are marked visited, the links are added and the next batch is taken;
\* results is not read again
ProcessResults ==
    /\ crawl_pc = "gathered"
    /\ batch_links' = UNION {ExtractedLinks[robots][u] : u \in crawl_results}
    /\ \E order \in IterationOrders(batch_links') :
            links' = AddAll(MarkVisited(links, crawl_results), order)
    /\ links_to_crawl' = get_url(links', MAX_PAGES)
    /\ crawl_results' = {}
    /\ crawl_pc' = "loop"
    /\ UNCHANGED robots
    /\ UNCHANGED <<nmVars, cardVars, joinVars, extractVars, outputVars, loadVars, allVars, parseVars, sortKeyVars, cleanVars, descVars>>

\* the loop is left when the batch is empty
EndCrawl ==
    /\ crawl_pc = "loop"
    /\ Len(links_to_crawl) = 0
    /\ crawl_pc' = "ended"
    /\ UNCHANGED <<links, links_to_crawl, robots, crawl_results, batch_links>>
    /\ UNCHANGED <<nmVars, cardVars, joinVars, extractVars, outputVars, loadVars, allVars, parseVars, sortKeyVars, cleanVars, descVars>>

NextCrawl ==
    \/ StartCrawl
    \/ ScrapeBatch
    \/ ProcessResults
    \/ EndCrawl

SpecCrawl == InitCrawl /\ [][NextCrawl]_vars

\* run goes on: the scrapes of a batch all return, by a result or by the
\* timeout of the browser, and the statements between them take their turn
SpecCrawlFair ==
    /\ SpecCrawl
    /\ WF_vars(StartCrawl)
    /\ WF_vars(ScrapeBatch)
    /\ WF_vars(ProcessResults)
    /\ WF_vars(EndCrawl)

-----------------------------------------------------------------------------
(* Properties of the crawler *)

\* the url is recorded in links as not visited
Unvisited(url) == \E i \in 1..Len(links) : links[i].url = url /\ ~links[i].visited

Visited(url) == \E i \in 1..Len(links) : links[i].url = url /\ links[i].visited

\* the url is in the batch that has been passed to scrape_page
PassedToScrape(url) == crawl_pc = "gathered" /\ url \in SeqToSet(links_to_crawl)

\* C29: every url recorded in links as unvisited is eventually passed to
\* scrape_page, also when the scrapes of other urls keep failing; a url is
\* marked visited only after its scrape gave a result; a visited url is
\* never in a batch; and the loop ends only when no url is unvisited
C29_EveryUnvisitedScraped ==
    /\ \A i \in 1..MaxUrls : Unvisited(Url(i)) ~> PassedToScrape(Url(i))
    /\ [][\A i \in 1..MaxUrls :
            (Unvisited(Url(i)) /\ Visited(Url(i))') => Url(i) \in crawl_results]_vars
    /\ [](\A i \in 1..Len(links_to_crawl) : ~Visited(links_to_crawl[i]))
    /\ [](crawl_pc = "ended" => \A i \in 1..Len(links) : links[i].visited)

\* the parts of C29 that do not depend on which scrapes fail
C29_SafetyPart ==
    /\ \A i \in 1..Len(links_to_crawl) : ~Visited(links_to_crawl[i])
    /\ crawl_pc = "ended" => \A i \in 1..Len(links) : links[i].visited

\* the matched links of a page that pass the five tests of the claim
Acceptable(content) ==
    LET matches == content.href \o content.src
        Passes(link) ==
            LET sl == structure_link(root_url, link)
            IN  /\ StartsWith(sl, s_Http)
                /\ StartsWith(sl, root_url)
                /\ ~\E ext \in blocked_exts : EndsWith(Lower(sl), ext)
                /\ sl \notin robots
                /\ ~Contains(sl, s_QuotEntity)
                /\ ~Contains(sl, s_AmpEntity)
    IN  {structure_link(root_url, matches[i]) : i \in {j \in 1..Len(matches) : Passes(matches[j])}}

\* C30: what the extractor returns for the pages of a batch is exactly the
\* matched links that have an http(s) scheme, lie under base_url, do not
\* end with a blocked extension, are not disallowed and contain neither
\* "&quot" nor "&amp;"; and these links are then keys of self.links
C30_AcceptableLinksReturned ==
    [][crawl_pc = "gathered" =>
            /\ batch_links' = UNION {Acceptable(PageOf(u)) : u \in crawl_results}
            /\ \A u \in crawl_results : \A l \in Acceptable(PageOf(u)) : Known(links', l)]_vars

====
